---- MODULE Spec2Model ----
(***************************************************************************)
(* Model of the pi-spi-sdk build scripts and utilities:                    *)
(*   - scripts/pre-generate.js  (the Spec Normalizer),                     *)
(*   - scripts/post-generate.js (the Generated-Output Patcher),            *)
(*   - src/utils/index.ts       (QueryBuilder, handleApiError,             *)
(*                               retryWithBackoff),                        *)
(*   - src/sdk.ts, src/services (the PiSpiSDK facade and its services).    *)
(* Each component has its own specification (SpecNorm, SpecPatch, SpecQB)  *)
(* over the shared variables; the variables of the other components stay   *)
(* at their idle values.                                                   *)
(***************************************************************************)
EXTENDS Integers, Sequences, FiniteSets, TLC

VARIABLES
  nDisk,      \* openapi.json on disk: the JSON tree its bytes encode
  nInput,     \* history: openapi.json before the first run
  nRuns,      \* history: number of Normalizer runs so far
  nExit,      \* exit code of the latest run (-1 before the first)
  nFixed,     \* fixedPaths of the latest run
  nRemoved,   \* removedNullOps of the latest run
  nWrites,    \* number of writeFileSync calls of the latest run
  nMem,       \* the in-memory `spec` object at the end of the latest run
  nPrev,      \* history: disk, exit code and counters before the latest run
  pc,         \* Patcher: the step the script is at
  pConfig,    \* src/generated/core/OpenAPI.ts: its text, or Missing
  pModels,    \* src/generated/models: its entries in readdir order, or Unlistable
  pFixed,     \* fixedCount of the latest fixEmptyTypes call
  pRead,      \* names read by the latest fixEmptyTypes call
  pWritten,   \* names written by the latest fixEmptyTypes call
  pLog,       \* the kinds of the lines the current run has logged, in order
  pExit,      \* exit code of the current run (-1 while it runs)
  pRun,       \* history: number of the current run
  pStart,     \* history: the configuration and the models when the run started
  pInitial,   \* history: the configuration and the models before the first run
  params,     \* QueryBuilder.params: key -> value
  filters,    \* QueryBuilder.filters: the Map's entries in insertion order
  sortField,  \* QueryBuilder.sortField
  sortOrder,  \* QueryBuilder.sortOrder
  qRet,       \* how the latest call on the builder ended
  qLatest,    \* history: field -> the operator and value of the latest filter call on it
  hError,     \* the value handleApiError is called with
  hOutcome,   \* how the call of handleApiError ended
  xOperation, \* BaseService.execute: how the wrapped operation ends
  xPromise,   \* BaseService.execute: the promise it returned
  rArgs,      \* retryWithBackoff: the maxRetries and initialDelay it was called with
  rMax,       \* retryWithBackoff: maxRetries after the default
  rDelay,     \* retryWithBackoff: initialDelay after the default
  rI,         \* retryWithBackoff: the loop variable i
  rPc,        \* retryWithBackoff: the point the call is at
  rLastError, \* retryWithBackoff: lastError
  rCalls,     \* history: how each invocation of fn ended, in order
  rWaits,     \* history: the delays handed to sleep, in order
  rPromise,   \* the promise retryWithBackoff returned
  OpenAPI,    \* sdk.ts: the module variable OpenAPI
  sdkInstances, \* history: the config each PiSpiSDK was constructed with and
              \* the token given to it last, in the order of construction
  sdkLast,    \* history: the latest call on an instance and what it returned
  sdkBefore,  \* history: OpenAPI before the latest call
  svcCall,    \* the service method called, with its arguments
  svcPromise  \* the promise the service method returned

normVars == <<nDisk, nInput, nRuns, nExit, nFixed, nRemoved, nWrites, nMem, nPrev>>

patchVars == <<pc, pConfig, pModels, pFixed, pRead, pWritten, pLog, pExit, pRun,
               pStart, pInitial>>

qbVars == <<params, filters, sortField, sortOrder, qRet, qLatest>>

errVars == <<hError, hOutcome, xOperation, xPromise>>

retryVars == <<rArgs, rMax, rDelay, rI, rPc, rLastError, rCalls, rWaits, rPromise>>

facadeVars == <<OpenAPI, sdkInstances, sdkLast, sdkBefore, svcCall, svcPromise>>

vars == <<normVars, patchVars, qbVars, errVars, retryVars, facadeVars>>

(***************************************************************************)
(* Bounds of the model.                                                    *)
(***************************************************************************)
MaxPaths == 2
MaxKeys == 2
MaxRuns == 2
MaxLines == 2
MaxPatchRuns == 2
MaxFilters == 2
MaxRetriesBound == 3

(***************************************************************************)
(* Characters and strings.  The string operations of the scripts (split,   *)
(* charAt, startsWith, toUpperCase, toLowerCase) are computed on sequences *)
(* of one-character strings; Chars spells out the characters of the        *)
(* strings the model uses and Text puts characters back together.          *)
(***************************************************************************)
Chars(s) ==
  CASE s = "" -> <<>>
    [] s = "get" -> <<"g","e","t">>
    [] s = "POST" -> <<"P","O","S","T">>
    [] s = "Get" -> <<"G","e","t">>
    [] s = "post" -> <<"p","o","s","t">>
    [] s = "parameters" -> <<"p","a","r","a","m","e","t","e","r","s">>
    [] s = "0" -> <<"0">>
    [] s = "1" -> <<"1">>
    [] s = "2" -> <<"2">>
    [] s = "/comptes/{numero}/transferts" ->
         <<"/","c","o","m","p","t","e","s","/","{","n","u","m","e","r","o","}",
           "/","t","r","a","n","s","f","e","r","t","s">>
    [] s = "/comptes/{numero}/operations" ->
         <<"/","c","o","m","p","t","e","s","/","{","n","u","m","e","r","o","}",
           "/","o","p","e","r","a","t","i","o","n","s">>
    [] s = "/a//b/" -> <<"/","a","/","/","b","/">>
    [] s = "/comptes" -> <<"/","c","o","m","p","t","e","s">>
    [] s = "/comptes/{numero}" ->
         <<"/","c","o","m","p","t","e","s","/","{","n","u","m","e","r","o","}">>
    [] s = "/{id}" -> <<"/","{","i","d","}">>
    [] s = "Alias.ts" -> <<"A","l","i","a","s",".","t","s">>
    [] s = "README.md" -> <<"R","E","A","D","M","E",".","m","d">>
    [] s = "Remise.ts" -> <<"R","e","m","i","s","e",".","t","s">>
    [] s = "index.tsx" -> <<"i","n","d","e","x",".","t","s","x">>
    [] s = ".ts" -> <<".","t","s">>

LowerAlpha == <<"a","b","c","d","e","f","g","h","i","j","k","l","m",
                "n","o","p","q","r","s","t","u","v","w","x","y","z">>
UpperAlpha == <<"A","B","C","D","E","F","G","H","I","J","K","L","M",
                "N","O","P","Q","R","S","T","U","V","W","X","Y","Z">>

IndexIn(seq, c) == CHOOSE i \in 1..Len(seq) : seq[i] = c

ToUpperChar(c) ==
  IF \E i \in 1..Len(LowerAlpha) : LowerAlpha[i] = c
  THEN UpperAlpha[IndexIn(LowerAlpha, c)] ELSE c

ToLowerChar(c) ==
  IF \E i \in 1..Len(UpperAlpha) : UpperAlpha[i] = c
  THEN LowerAlpha[IndexIn(UpperAlpha, c)] ELSE c

ToLowerCase(s) == [i \in 1..Len(s) |-> ToLowerChar(s[i])]
ToUpperCase(s) == [i \in 1..Len(s) |-> ToUpperChar(s[i])]

\* The text of a character sequence, for reading and for literal comparison.
RECURSIVE Text(_)
Text(s) == IF s = <<>> THEN "" ELSE s[1] \o Text(Tail(s))

RECURSIVE ConcatAll(_)
ConcatAll(ss) == IF ss = <<>> THEN <<>> ELSE ss[1] \o ConcatAll(Tail(ss))

\* String.prototype.split(sep) for a one-character separator: the pieces
\* between separators, empty pieces included.
RECURSIVE SplitFrom(_, _, _)
SplitFrom(s, sep, cur) ==
  IF s = <<>> THEN <<cur>>
  ELSE IF s[1] = sep THEN <<cur>> \o SplitFrom(Tail(s), sep, <<>>)
  ELSE SplitFrom(Tail(s), sep, Append(cur, s[1]))

Split(s, sep) == SplitFrom(s, sep, <<>>)

StartsWith(s, c) == Len(s) > 0 /\ s[1] = c

\* Mutant of Capitalize: the first character is left as it is.
CapitalizeNothing(p) == p

\* p.charAt(0).toUpperCase() + p.slice(1)
Capitalize(p) == IF p = <<>> THEN <<>> ELSE <<ToUpperChar(p[1])>> \o Tail(p)

(***************************************************************************)
(* JSON values as JavaScript holds them in memory.  An object is its       *)
(* entries in insertion order; an array has items and, like any JS object, *)
(* may carry extra named properties, which JSON.stringify does not write.  *)
(***************************************************************************)
Undefined == [t |-> "undefined"]
Null == [t |-> "null"]
Str(s) == [t |-> "str", s |-> s]
Num(n) == [t |-> "num", n |-> n]
Arr(items) == [t |-> "arr", items |-> items, props |-> <<>>]
Obj(props) == [t |-> "obj", props |-> props]
\* File content that JSON.parse rejects.
Garbage == [t |-> "garbage"]


HasProps(v) == v.t \in {"obj", "arr"}

HasKey(props, k) == \E i \in 1..Len(props) : props[i][1] = k

Lookup(props, k) ==
  IF HasKey(props, k)
  THEN props[CHOOSE i \in 1..Len(props) : props[i][1] = k][2]
  ELSE Undefined

\* v[k] for a named (non-index) key.  Reading a property of null or
\* undefined throws; the callers test for that first.
Get(v, k) == IF HasProps(v) THEN Lookup(v.props, k) ELSE Undefined

\* v[k] = x : an existing key keeps its place, a new key is appended.
SetProp(props, k, x) ==
  IF HasKey(props, k)
  THEN [i \in 1..Len(props) |-> IF props[i][1] = k THEN <<k, x>> ELSE props[i]]
  ELSE Append(props, <<k, x>>)

Set(v, k, x) == [v EXCEPT !.props = SetProp(v.props, k, x)]

\* delete v[k]
DeleteProp(props, k) == SelectSeq(props, LAMBDA e : e[1] # k)

\* !v
Falsy(v) ==
  \/ v.t \in {"undefined", "null"}
  \/ v.t = "str" /\ v.s = ""
  \/ v.t = "num" /\ v.n = 0

\* typeof v === 'object'
TypeofObject(v) == v.t \in {"null", "arr", "obj"}

IsArray(v) == v.t = "arr"

Digit(i) == <<"0","1","2","3","4","5","6","7","8","9">>[i + 1]

\* Object.entries(v): the own enumerable entries, a snapshot taken before
\* the loop body runs.  An array enumerates its indices, then its props.
Entries(v) ==
  IF v.t = "obj" THEN v.props
  ELSE IF v.t = "arr"
       THEN [i \in 1..Len(v.items) |-> <<Digit(i - 1), v.items[i]>>] \o v.props
  ELSE <<>>

\* JSON.parse(JSON.stringify(v, null, 2)): what the written bytes encode.
\* Named properties of an array are not written.
RECURSIVE Stringify(_)
Stringify(v) ==
  IF v.t = "arr"
  THEN [t |-> "arr",
        items |-> [i \in 1..Len(v.items) |-> Stringify(v.items[i])],
        props |-> <<>>]
  ELSE IF v.t = "obj"
  THEN [t |-> "obj",
        props |-> [i \in 1..Len(v.props) |->
                     <<v.props[i][1], Stringify(v.props[i][2])>>]]
  ELSE v

(***************************************************************************)
(* scripts/pre-generate.js                                                 *)
(***************************************************************************)
httpMethods == {"get", "post", "put", "delete", "patch", "options", "head"}

\* httpMethods.includes(key.toLowerCase())
IsHttpMethodKey(key) == Text(ToLowerCase(Chars(key))) \in httpMethods

DefaultTags == Arr(<<Str("Default")>>)

\* path.split('/').filter((p) => p && !p.startsWith('{'))
PathParts(path) ==
  SelectSeq(Split(Chars(path), "/"), LAMBDA p : p # <<>> /\ ~StartsWith(p, "{"))

\* key.toLowerCase() + pathParts.map(capitalize).join('')
SynthOperationId(key, path) ==
  Text(ToLowerCase(Chars(key))
         \o ConcatAll([i \in 1..Len(PathParts(path)) |-> Capitalize(PathParts(path)[i])]))

\* Mutant of NeedsTags: an empty tags array is accepted.
NeedsTagsIgnoringLength(value) ==
  Falsy(Get(value, "tags")) \/ ~IsArray(Get(value, "tags"))

\* !value.tags || !Array.isArray(value.tags) || value.tags.length === 0
NeedsTags(value) ==
  LET tags == Get(value, "tags") IN
  Falsy(tags) \/ ~IsArray(tags) \/ Len(tags.items) = 0

NeedsOperationId(value) == Falsy(Get(value, "operationId"))

\* Lines 70-86 on one operation object.
FixOperation(key, path, value) ==
  LET tagged == IF NeedsTags(value) THEN Set(value, "tags", DefaultTags) ELSE value
  IN IF NeedsOperationId(tagged)
     THEN Set(tagged, "operationId", Str(SynthOperationId(key, path)))
     ELSE tagged

\* Mutant of VisitEntry: a value that is not an object is counted as fixed.
VisitEntryCountingSkipped(path, key, value, acc) ==
  IF ~IsHttpMethodKey(key) THEN acc
  ELSE IF value.t \in {"null", "undefined"}
  THEN [acc EXCEPT !.item = [@ EXCEPT !.props = DeleteProp(@, key)],
                   !.removed = @ + 1]
  ELSE IF ~TypeofObject(value) THEN [acc EXCEPT !.fixed = @ + 1]
  ELSE [acc EXCEPT !.item = Set(@, key, FixOperation(key, path, value)),
                   !.fixed = @ + (IF NeedsTags(value) THEN 1 ELSE 0)]

\* The body of the inner loop for one snapshot entry; acc is the path item
\* as mutated so far and the two counters.
VisitEntry(path, key, value, acc) ==
  IF ~IsHttpMethodKey(key) THEN acc
  ELSE IF value.t \in {"null", "undefined"}
  THEN [acc EXCEPT !.item = [@ EXCEPT !.props = DeleteProp(@, key)],
                   !.removed = @ + 1]
  ELSE IF ~TypeofObject(value) THEN acc
  ELSE [acc EXCEPT !.item = Set(@, key, FixOperation(key, path, value)),
                   !.fixed = @ + (IF NeedsTags(value) THEN 1 ELSE 0)]

\* Mutant of VisitEntries: the loop walks the live key list by index, so the
\* entry that follows a deleted key is skipped.
RECURSIVE VisitEntriesLive(_, _, _)
VisitEntriesLive(path, entries, acc) ==
  IF entries = <<>> THEN acc
  ELSE LET deleted == IsHttpMethodKey(entries[1][1]) /\ entries[1][2] = Null
           rest == IF deleted /\ Len(entries) > 1 THEN Tail(Tail(entries))
                   ELSE Tail(entries)
       IN VisitEntriesLive(path, rest,
                           VisitEntry(path, entries[1][1], entries[1][2], acc))

RECURSIVE VisitEntries(_, _, _)
VisitEntries(path, entries, acc) ==
  IF entries = <<>> THEN acc
  ELSE VisitEntries(path, Tail(entries),
                    VisitEntry(path, entries[1][1], entries[1][2], acc))

\* Lines 52-89 for one path: the entries are a snapshot of the path item.
\* (The keys of an array are its indices, none of them a method name.)
VisitPathItem(path, pathItem, acc) ==
  IF ~Falsy(pathItem) /\ TypeofObject(pathItem)
  THEN VisitEntries(path, Entries(pathItem), [acc EXCEPT !.item = pathItem])
  ELSE [acc EXCEPT !.item = pathItem]

RECURSIVE VisitPaths(_, _)
VisitPaths(entries, acc) ==
  IF entries = <<>> THEN acc
  ELSE LET r == VisitPathItem(entries[1][1], entries[1][2], acc)
       IN VisitPaths(Tail(entries), [r EXCEPT !.items = Append(@, r.item)])

\* Lines 47-90: the loop over Object.entries(spec.paths).  The path items
\* are mutated in place, so spec.paths keeps its keys and their order.
NormalizePaths(paths) ==
  LET r == VisitPaths(Entries(paths),
                      [item |-> Undefined, items |-> <<>>, fixed |-> 0, removed |-> 0])
      n == IF paths.t = "arr" THEN Len(paths.items) ELSE 0
  IN [paths |->
        IF paths.t = "obj"
        THEN Obj([i \in 1..Len(paths.props) |-> <<paths.props[i][1], r.items[i]>>])
        ELSE IF paths.t = "arr"
        THEN [paths EXCEPT !.items = [i \in 1..n |-> r.items[i]]]
        ELSE paths,
      fixed |-> r.fixed,
      removed |-> r.removed]

\* Mutant of ValidationThrows: paths and components are only tested for
\* presence, not for being objects.
ValidationThrowsPresenceOnly(content) ==
  \/ content.t = "garbage"
  \/ content.t = "null"
  \/ Falsy(Get(content, "openapi"))
  \/ Falsy(Get(content, "info"))
  \/ Falsy(Get(content, "paths"))
  \/ Falsy(Get(content, "components"))

\* Lines 21-38: JSON.parse and the four checks; TRUE when one of them throws.
\* Reading a property of null throws a TypeError.
ValidationThrows(content) ==
  \/ content.t = "garbage"
  \/ content.t = "null"
  \/ Falsy(Get(content, "openapi"))
  \/ Falsy(Get(content, "info"))
  \/ Falsy(Get(content, "paths")) \/ ~TypeofObject(Get(content, "paths"))
  \/ Falsy(Get(content, "components")) \/ ~TypeofObject(Get(content, "components"))

\* Lines 40-44
EnsureTags(spec) ==
  IF Falsy(Get(spec, "tags")) \/ ~IsArray(Get(spec, "tags"))
  THEN Set(spec, "tags", Arr(<<>>)) ELSE spec

\* The whole script on the file content: the exit code, the number of
\* writes, the content left on disk, the counters and the in-memory spec.
PreGenerate(content) ==
  IF ValidationThrows(content)
  THEN [exit |-> 1, writes |-> 0, disk |-> content,
        fixed |-> 0, removed |-> 0, mem |-> Undefined]
  ELSE LET tagged == EnsureTags(content)
           r == NormalizePaths(Get(tagged, "paths"))
           spec == Set(tagged, "paths", r.paths)
       IN [exit |-> 0, writes |-> 1, disk |-> Stringify(spec),
           fixed |-> r.fixed, removed |-> r.removed, mem |-> spec]

(***************************************************************************)
(* Documents the Normalizer is run on.                                     *)
(***************************************************************************)
OpComplete == Obj(<< <<"tags", Arr(<<Str("A")>>)>>, <<"operationId", Str("custom")>> >>)
OpOddShapes == Obj(<< <<"tags", Str("x")>>, <<"operationId", Num(5)>> >>)
OpEmptyFields == Obj(<< <<"tags", Arr(<<>>)>>, <<"operationId", Str("")>> >>)

OpValues == { Null, Str("x"), Num(7), Arr(<<>>), Obj(<<>>),
              OpComplete, OpOddShapes, OpEmptyFields }

\* The path keys of the documents, in the order they appear in a document.
PathOrder == <<"/comptes/{numero}/transferts", "/a//b/">>

ItemEntries ==
  {<<k, v>> : k \in {"get", "POST"}, v \in OpValues} \cup {<<"parameters", Null>>}

DistinctKeys(es) == \A i, j \in 1..Len(es) : i # j => es[i][1] # es[j][1]

SeqsUpTo(S, n) == UNION {[1..k -> S] : k \in 0..n}

PathItems ==
  {Obj(es) : es \in {s \in SeqsUpTo(ItemEntries, MaxKeys) : DistinctKeys(s)}}
    \cup {Null, Str("x"), Arr(<<Null>>)}

PathKeySeqs ==
  {ks \in SeqsUpTo(1..Len(PathOrder), MaxPaths) :
     \A i, j \in 1..Len(ks) : i < j => ks[i] < ks[j]}

PathMap(ks, items) == Obj([i \in 1..Len(ks) |-> <<PathOrder[ks[i]], items[i]>>])

Doc(openapi, info, paths, components, tags) ==
  Obj(SelectSeq(<< <<"openapi", openapi>>, <<"info", info>>, <<"paths", paths>>,
                   <<"components", components>>, <<"tags", tags>> >>,
                LAMBDA e : e[2] # Undefined))

SimplePaths == Obj(<< <<"/comptes/{numero}/transferts", Obj(<< <<"POST", Obj(<<>>)>>, <<"get", Null>> >>)>> >>)

\* Well-formed top level, every shape of path item and operation.
RichDoc(ks, items) ==
  Doc(Str("3.0.0"), Obj(<<>>), PathMap(ks, items), Obj(<<>>), Undefined)

\* Every shape of the top-level sections over one fixed path map.
ShapeDocs ==
  {Doc(o, i, p, c, t) :
     o \in {Undefined, Str("3.0.0"), Str("")},
     i \in {Undefined, Null, Obj(<<>>)},
     p \in {Undefined, Null, Str("x"), Arr(<<>>), SimplePaths},
     c \in {Undefined, Str("x"), Arr(<<>>), Obj(<<>>)},
     t \in {Undefined, Str("x"), Arr(<<Obj(<<>>)>>)}}
    \cup {Garbage, Null, Str("x")}

\* An operation that already has the operationId the script makes for a GET
\* under /comptes.
OpNamedGetComptes ==
  Obj(<< <<"tags", Arr(<<Str("A")>>)>>, <<"operationId", Str("getComptes")>> >>)

\* A collection and its member: two paths that differ in a parameter
\* segment only, each with a GET operation.
TwinDocs ==
  {Doc(Str("3.0.0"), Obj(<<>>),
       Obj(<< <<"/comptes", Obj(<< <<"get", list>> >>)>>,
              <<"/comptes/{numero}", Obj(<< <<"get", member>> >>)>> >>),
       Obj(<<>>), Undefined) :
     list \in {Obj(<<>>), OpComplete, OpNamedGetComptes},
     member \in {Obj(<<>>), OpComplete, OpNamedGetComptes}}

(***************************************************************************)
(* The Normalizer as a state machine: one action is one run of the script. *)
(***************************************************************************)
Missing == [t |-> "missing"]
Unlistable == [t |-> "unlistable"]

\* The Patcher's variables while another component is the one running.
PatchIdle ==
  /\ pc = "idle" /\ pConfig = Missing /\ pModels = Unlistable
  /\ pFixed = 0 /\ pRead = {} /\ pWritten = {} /\ pLog = <<>> /\ pExit = -1
  /\ pRun = 0
  /\ pStart = [config |-> Missing, models |-> Unlistable]
  /\ pInitial = [config |-> Missing, models |-> Unlistable]

\* A QueryBuilder as its field initialisers leave it (lines 273-276), with
\* no call made on it.
QueryIdle ==
  /\ params = <<>> /\ filters = <<>>
  /\ sortField = Undefined /\ sortOrder = "asc"
  /\ qRet = [kind |-> "none"]
  /\ qLatest = <<>>

\* The error mapper and execute with no call made.
ErrIdle ==
  /\ hError = Undefined /\ hOutcome = [kind |-> "none"]
  /\ xOperation = [kind |-> "none"] /\ xPromise = [kind |-> "none"]

\* No PiSpiSDK constructed, no service method called.
FacadeIdle ==
  /\ OpenAPI = [t |-> "undefined"] /\ sdkInstances = <<>>
  /\ sdkLast = [op |-> "none"] /\ sdkBefore = [t |-> "undefined"]
  /\ svcCall = [service |-> "none"] /\ svcPromise = [kind |-> "none"]

\* retryWithBackoff with no call made.
RetryIdle ==
  /\ rArgs = <<>> /\ rMax = 0 /\ rDelay = 0 /\ rI = 0 /\ rPc = "idle"
  /\ rLastError = [t |-> "undefined"] /\ rCalls = <<>> /\ rWaits = <<>>
  /\ rPromise = [kind |-> "none"]

NoRun == [disk |-> Null, exit |-> -1, fixed |-> 0, removed |-> 0]

NormIdle ==
  /\ nDisk = Null /\ nInput = Null /\ nRuns = 0 /\ nExit = -1
  /\ nFixed = 0 /\ nRemoved = 0 /\ nWrites = 0 /\ nMem = Undefined
  /\ nPrev = NoRun

InitNorm ==
  /\ \/ \E ks \in PathKeySeqs : \E items \in [1..Len(ks) -> PathItems] :
          nDisk = RichDoc(ks, items)
     \/ nDisk \in ShapeDocs
     \/ nDisk \in TwinDocs
  /\ nInput = nDisk
  /\ nRuns = 0
  /\ nExit = -1
  /\ nFixed = 0 /\ nRemoved = 0 /\ nWrites = 0
  /\ nMem = Undefined
  /\ nPrev = NoRun
  /\ PatchIdle
  /\ QueryIdle
  /\ ErrIdle
  /\ RetryIdle
  /\ FacadeIdle

NormalizerRun ==
  /\ nRuns < MaxRuns
  /\ \E r \in {PreGenerate(nDisk)} :
       /\ nDisk' = r.disk
       /\ nExit' = r.exit
       /\ nFixed' = r.fixed
       /\ nRemoved' = r.removed
       /\ nWrites' = r.writes
       /\ nMem' = r.mem
  /\ nPrev' = [disk |-> nDisk, exit |-> nExit, fixed |-> nFixed, removed |-> nRemoved]
  /\ nRuns' = nRuns + 1
  /\ nInput' = nInput
  /\ UNCHANGED <<patchVars, qbVars, errVars, retryVars, facadeVars>>

NextNorm == NormalizerRun

SpecNorm == InitNorm /\ [][NextNorm]_vars

(***************************************************************************)
(* Properties of the Normalizer, checked under SpecNorm.  nPrev.disk is    *)
(* the file the latest run read, nDisk the file it left.                   *)
(***************************************************************************)
\* The keys of the model's documents that are HTTP method names in some
\* letter case.
MethodKeysUsed == {"get", "POST"}

PathEntries(doc) == Entries(Get(doc, "paths"))

\* P(path, key, value) for every HTTP-method key of every path item of doc.
AllOps(doc, P(_, _, _)) ==
  \A i \in 1..Len(PathEntries(doc)) :
    LET path == PathEntries(doc)[i][1]
        item == PathEntries(doc)[i][2]
    IN HasProps(item) =>
         \A k \in 1..Len(item.props) :
           item.props[k][1] \in MethodKeysUsed =>
             P(path, item.props[k][1], item.props[k][2])

SomeOp(doc, P(_, _, _)) == ~AllOps(doc, LAMBDA p, k, v : ~P(p, k, v))

\* doc.paths[path][key]
OpAt(doc, path, key) == Get(Get(Get(doc, "paths"), path), key)

RanOk == nRuns >= 1 /\ nExit = 0

C2_EveryMethodValueComplete ==
  RanOk =>
    AllOps(nDisk, LAMBDA path, key, v :
      /\ IsArray(Get(v, "tags")) /\ Len(Get(v, "tags").items) > 0
      /\ Get(v, "operationId").t = "str" /\ Get(v, "operationId").s # "")

\* C2 as amended: in the written document, under every HTTP-method key, a
\* JSON object has a non-empty array `tags` and a truthy `operationId`, a
\* non-empty string whenever the input's operationId was missing, falsy or a
\* string; any other value (string, number, array) is written as it was.
C2_ObjectOperationsComplete ==
  RanOk =>
    AllOps(nDisk, LAMBDA path, key, v :
      LET was == OpAt(nPrev.disk, path, key) IN
      IF v.t = "obj"
      THEN /\ IsArray(Get(v, "tags")) /\ Len(Get(v, "tags").items) > 0
           /\ ~Falsy(Get(v, "operationId"))
           /\ (Falsy(Get(was, "operationId")) \/ Get(was, "operationId").t = "str")
                => (Get(v, "operationId").t = "str" /\ Get(v, "operationId").s # "")
      ELSE v = was)

\* C2 witness: one path item held a string under get and an operation with
\* an empty tags array and an empty operationId under POST; the run left the
\* string and completed the operation.
C2_Witness ==
  /\ nRuns = 1 /\ nExit = 0
  /\ OpAt(nInput, "/a//b/", "get") = Str("x")
  /\ OpAt(nInput, "/a//b/", "POST") = OpEmptyFields
  /\ OpAt(nDisk, "/a//b/", "get") = Str("x")
  /\ Get(OpAt(nDisk, "/a//b/", "POST"), "tags") = DefaultTags
  /\ Get(OpAt(nDisk, "/a//b/", "POST"), "operationId") = Str("postAB")

\* The number of null-valued HTTP-method keys of a document.
NullMethodKeys(doc) ==
  Cardinality({ik \in (1..Len(PathEntries(doc))) \X (1..(MaxKeys + 1)) :
    LET item == PathEntries(doc)[ik[1]][2] IN
      /\ HasProps(item)
      /\ ik[2] <= Len(item.props)
      /\ item.props[ik[2]][1] \in MethodKeysUsed
      /\ item.props[ik[2]][2] = Null})

\* The keys of a path item, in order, without its null-valued method keys.
KeptKeys(item) ==
  LET kept == SelectSeq(item.props,
                        LAMBDA e : ~(e[1] \in MethodKeysUsed /\ e[2] = Null))
  IN [k \in 1..Len(kept) |-> kept[k][1]]

\* C3: after a successful run no HTTP-method key of any path item maps to
\* null, removedNullOps is the number of null-valued HTTP-method keys of the
\* input, and no other key is lost or skipped: every path item keeps exactly
\* its other keys, in order, and each remaining operation object has been
\* visited (it has tags).
C3_NullOpsEliminated ==
  RanOk =>
    /\ AllOps(nDisk, LAMBDA path, key, v : v # Null)
    /\ nRemoved = NullMethodKeys(nPrev.disk)
    /\ \A i \in 1..Len(PathEntries(nDisk)) :
         LET before == PathEntries(nPrev.disk)[i][2]
             after == PathEntries(nDisk)[i][2]
         IN /\ PathEntries(nDisk)[i][1] = PathEntries(nPrev.disk)[i][1]
            /\ HasProps(before) =>
                 [k \in 1..Len(after.props) |-> after.props[k][1]] = KeptKeys(before)
    /\ AllOps(nMem, LAMBDA path, key, v :
         TypeofObject(v) => IsArray(Get(v, "tags")))

\* C3 witness: a run removed two null operations of one path item, the first
\* deleted while the second was still to be visited.
C3_Witness ==
  /\ nRuns = 1 /\ nExit = 0 /\ nRemoved >= 2
  /\ \E i \in 1..Len(PathEntries(nInput)) :
       LET item == PathEntries(nInput)[i][2] IN
         /\ HasProps(item) /\ Len(item.props) = 2
         /\ item.props[1] = <<"get", Null>>
         /\ item.props[2] = <<"POST", Null>>
         /\ PathEntries(nDisk)[i][2] = Obj(<<>>)

\* A section that is there and is a JavaScript object (typeof 'object', not
\* null): a JSON object or array.
IsJsObject(v) == v.t \in {"obj", "arr"}

\* The document lacks one of the four required sections, or paths or
\* components is not an object.
StructurallyInvalid(doc) ==
  \/ ~IsJsObject(doc)
  \/ Get(doc, "openapi") = Undefined
  \/ Get(doc, "info") = Undefined
  \/ ~IsJsObject(Get(doc, "paths"))
  \/ ~IsJsObject(Get(doc, "components"))

ExpectedOperationId(key, path) ==
  CASE key = "get" /\ path = "/comptes/{numero}/transferts" -> "getComptesTransferts"
    [] key = "POST" /\ path = "/comptes/{numero}/transferts" -> "postComptesTransferts"
    [] key = "get" /\ path = "/a//b/" -> "getAB"
    [] key = "POST" /\ path = "/a//b/" -> "postAB"
    [] key = "get" /\ path = "/comptes" -> "getComptes"
    [] key = "get" /\ path = "/comptes/{numero}" -> "getComptes"

\* C5: every operation object whose operationId is missing or falsy gets
\* lower(method) followed by the capitalised non-empty, non-parameter path
\* segments, in the in-memory spec and (for a JSON object) in the written
\* file; a truthy operationId is kept; the results of the spec's two
\* examples are postComptesTransferts and getComptesOperations.
C5_OperationIdSynthesis ==
  /\ SynthOperationId("post", "/comptes/{numero}/transferts") = "postComptesTransferts"
  /\ SynthOperationId("get", "/comptes/{numero}/operations") = "getComptesOperations"
  /\ RanOk =>
       AllOps(nPrev.disk, LAMBDA path, key, v :
         (TypeofObject(v) /\ v # Null) =>
           LET want == IF Falsy(Get(v, "operationId"))
                       THEN Str(ExpectedOperationId(key, path))
                       ELSE Get(v, "operationId")
           IN /\ Get(OpAt(nMem, path, key), "operationId") = want
              /\ v.t = "obj" => Get(OpAt(nDisk, path, key), "operationId") = want)

\* C5 witness: a POST operation under /comptes/{numero}/transferts had no
\* operationId and the written file gives it postComptesTransferts, while
\* another operation kept the operationId it had.
C5_Witness ==
  /\ nRuns = 1 /\ nExit = 0
  /\ OpAt(nInput, "/comptes/{numero}/transferts", "POST") = Obj(<<>>)
  /\ Get(OpAt(nDisk, "/comptes/{numero}/transferts", "POST"), "operationId")
       = Str("postComptesTransferts")
  /\ OpAt(nInput, "/a//b/", "get") = OpComplete
  /\ Get(OpAt(nDisk, "/a//b/", "get"), "operationId") = Str("custom")

(***************************************************************************)
(* scripts/post-generate.js                                                *)
(*                                                                         *)
(* The text of a file is a sequence of tokens, each a piece of text no     *)
(* pattern of the script can match partway into: the keyword prefix        *)
(* "export type ", identifiers, " = ", single whitespace characters,       *)
(* punctuation, and whole type bodies.  Character offsets (the regular     *)
(* expression's lastIndex) are computed from the tokens' lengths.          *)
(***************************************************************************)
T_export == "export type "
T_eq == " = "

\* \s
IsWs(tok) == tok \in {" ", "\n"}

\* \w+ : the identifiers of the model's files.
Identifiers == {"CompteTransfertIntraRequest", "WebhookModificationRequest", "remise",
                "SomeUnknownType", "toString", "Montant", "number"}

IsWord(tok) == tok \in Identifiers

\* The own keys of emptyTypeFixes and their bodies (lines 128-146).
emptyTypeFixes ==
  [CompteTransfertIntraRequest |->
     "{\n    txId: string;\n    montant: number;\n    motif?: string;\n    payeurNumero?: string;\n    payeNumero?: string;\n    payeurAlias?: string;\n    payeAlias?: string;\n}",
   WebhookModificationRequest |->
     "{\n    callbackUrl?: string;\n    alias?: string;\n}",
   remise |->
     "{\n    montant?: number;\n    taux?: number;\n}"]

\* Properties every object literal inherits from Object.prototype, with the
\* text a template literal renders them as.
ObjectPrototype ==
  [toString |-> "function toString() { [native code] }",
   constructor |-> "function Object() { [native code] }",
   valueOf |-> "function valueOf() { [native code] }",
   hasOwnProperty |-> "function hasOwnProperty() { [native code] }"]

\* emptyTypeFixes[typeName]: an own key, else a property inherited through
\* the prototype chain, else undefined ("" here, which is as falsy).
TableLookup(typeName) ==
  IF typeName \in DOMAIN emptyTypeFixes THEN emptyTypeFixes[typeName]
  ELSE IF typeName \in DOMAIN ObjectPrototype THEN ObjectPrototype[typeName]
  ELSE ""

RECURSIVE Offset(_, _)
\* The character offset at which token i starts (0 for the first token).
Offset(c, i) == IF i <= 1 THEN 0 ELSE Offset(c, i - 1) + Len(c[i - 1])

RECURSIVE SkipWs(_, _)
\* The first index from i on that is not whitespace (Len(c) + 1 if none).
SkipWs(c, i) == IF i <= Len(c) /\ IsWs(c[i]) THEN SkipWs(c, i + 1) ELSE i

MinOf(S) == CHOOSE m \in S : \A n \in S : m <= n

\* /export type (\w+) = \s*;/ matched at token i: the index of the closing
\* semicolon, 0 when there is no match at i.
EmptyTypeEnd(c, i) ==
  IF i + 3 <= Len(c) /\ c[i] = T_export /\ IsWord(c[i + 1]) /\ c[i + 2] = T_eq
  THEN LET j == SkipWs(c, i + 3) IN IF j <= Len(c) /\ c[j] = ";" THEN j ELSE 0
  ELSE 0

\* emptyTypePattern.exec(content) with the given lastIndex: the first match
\* starting at or after that offset (0: no match, the loop ends).
ExecEmptyType(c, lastIndex) ==
  LET found == {i \in 1..Len(c) : Offset(c, i) >= lastIndex /\ EmptyTypeEnd(c, i) > 0}
  IN IF found = {} THEN 0 ELSE MinOf(found)

\* `export type ${typeName} = ;`
EmptyDeclaration(typeName) == <<T_export, typeName, T_eq, ";">>

\* Mutant of FixedDeclaration: the closing semicolon is left out.
FixedDeclarationNoSemicolon(typeName) ==
  <<T_export, typeName, T_eq, TableLookup(typeName)>>

\* `export type ${typeName} = ${emptyTypeFixes[typeName]};`
FixedDeclaration(typeName) == <<T_export, typeName, T_eq, TableLookup(typeName), ";">>

\* The first index at which the token sequence lit occurs in c, 0 if none.
IndexOfSeq(c, lit) ==
  LET found == {i \in 1..(Len(c) - Len(lit) + 1) : SubSeq(c, i, i + Len(lit) - 1) = lit}
  IN IF found = {} THEN 0 ELSE MinOf(found)

\* content.replace(literal, replacement): the first occurrence only; the
\* content is unchanged when the literal does not occur.
ReplaceFirst(c, lit, by) ==
  LET i == IndexOfSeq(c, lit) IN
  IF i = 0 THEN c
  ELSE SubSeq(c, 1, i - 1) \o by \o SubSeq(c, i + Len(lit), Len(c))

\* Lines 168-181: the exec loop.  The pattern keeps its lastIndex while the
\* content it is run on is replaced.
RECURSIVE EmptyTypeLoop(_, _, _, _)
\* Lines 169-180: the loop body for the match at token i.
EmptyTypeMatch(c, i, typeName, count, modified) ==
  IF TableLookup(typeName) # ""
  THEN EmptyTypeLoop(
         ReplaceFirst(c, EmptyDeclaration(typeName), FixedDeclaration(typeName)),
         Offset(c, EmptyTypeEnd(c, i) + 1), count + 1, TRUE)
  ELSE EmptyTypeLoop(c, Offset(c, EmptyTypeEnd(c, i) + 1), count, modified)

EmptyTypeLoop(c, lastIndex, count, modified) ==
  IF ExecEmptyType(c, lastIndex) = 0
  THEN [content |-> c, count |-> count, modified |-> modified]
  ELSE EmptyTypeMatch(c, ExecEmptyType(c, lastIndex),
                      c[ExecEmptyType(c, lastIndex) + 1], count, modified)

\* (remise)\??:\s*; matched at the token "remise" at k: the index of the
\* closing semicolon, 0 when there is no match.
RemiseFieldEnd(c, k, optionalMark) ==
  IF k <= Len(c) /\ c[k] = "remise"
  THEN LET colon == IF optionalMark /\ k + 1 <= Len(c) /\ c[k + 1] = "?"
                    THEN k + 2 ELSE k + 1
           j == SkipWs(c, colon + 1)
       IN IF colon <= Len(c) /\ c[colon] = ":" /\ j <= Len(c) /\ c[j] = ";"
          THEN j ELSE 0
  ELSE 0

\* /(\s+)(remise)\??:\s*;/ has a match whose "remise" is token k.
RemisePatternAt(c, k) == k > 1 /\ IsWs(c[k - 1]) /\ RemiseFieldEnd(c, k, TRUE) > 0

\* remisePattern.test(content)
RemisePatternTest(c) == \E k \in 1..Len(c) : RemisePatternAt(c, k)

RECURSIVE RemisePatternReplace(_, _)
\* content.replace(remisePattern, `$1$2?: ${emptyTypeFixes['remise']}`) from
\* token k on: the whitespace before each match ($1) stays, the rest of the
\* match becomes "remise?: " and the body.
RemisePatternReplace(c, k) ==
  IF k > Len(c) THEN <<>>
  ELSE IF RemisePatternAt(c, k)
  THEN <<"remise", "?", ":", " ", emptyTypeFixes.remise>>
         \o RemisePatternReplace(c, RemiseFieldEnd(c, k, TRUE) + 1)
  ELSE <<c[k]>> \o RemisePatternReplace(c, k + 1)

\* content.includes('remise: ;')
IncludesRemiseLiteral(c) == IndexOfSeq(c, <<"remise", ":", " ", ";">>) > 0

RECURSIVE RemiseLiteralReplace(_, _)
\* content.replace(/remise:\s*;/g, `remise: ${emptyTypeFixes['remise']}`)
RemiseLiteralReplace(c, k) ==
  IF k > Len(c) THEN <<>>
  ELSE IF RemiseFieldEnd(c, k, FALSE) > 0
  THEN <<"remise", ":", " ", emptyTypeFixes.remise>>
         \o RemiseLiteralReplace(c, RemiseFieldEnd(c, k, FALSE) + 1)
  ELSE <<c[k]>> \o RemiseLiteralReplace(c, k + 1)

\* Mutant of FixRemiseLiteral: the replacement is not counted as a fix.
FixRemiseLiteralUncounted(r) ==
  IF IncludesRemiseLiteral(r.content)
  THEN [content |-> RemiseLiteralReplace(r.content, 1),
        count |-> r.count, modified |-> TRUE]
  ELSE r

\* Lines 194-199: the literal 'remise: ;' and its replacement.
FixRemiseLiteral(r) ==
  IF IncludesRemiseLiteral(r.content)
  THEN [content |-> RemiseLiteralReplace(r.content, 1),
        count |-> r.count + 1, modified |-> TRUE]
  ELSE r

\* Mutant of FixRemisePattern: one fix is counted for every match.
FixRemisePatternPerMatch(r) ==
  IF RemisePatternTest(r.content)
  THEN [content |-> RemisePatternReplace(r.content, 1),
        count |-> r.count + Cardinality({k \in 1..Len(r.content) :
                                           RemisePatternAt(r.content, k)}),
        modified |-> TRUE]
  ELSE r

\* Lines 184-191: the remise field pattern and its replacement.
FixRemisePattern(r) ==
  IF RemisePatternTest(r.content)
  THEN [content |-> RemisePatternReplace(r.content, 1),
        count |-> r.count + 1, modified |-> TRUE]
  ELSE r

\* Lines 160-199 on the content of one file: the three rules in order.
FixFile(content) ==
  FixRemiseLiteral(FixRemisePattern(EmptyTypeLoop(content, 0, 0, FALSE)))

\* s.endsWith(suffix)
EndsWith(s, suffix) ==
  /\ Len(s) >= Len(suffix)
  /\ SubSeq(s, Len(s) - Len(suffix) + 1, Len(s)) = suffix

\* Mutant of IsModelFile: every entry of the directory is scanned.
IsModelFileAnyName(name) == TRUE

\* file.endsWith('.ts')
IsModelFile(name) == EndsWith(Chars(name), Chars(".ts"))

\* What readFileSync(configPath) and readdirSync(modelsDir) find.
TextFile(text) == [t |-> "text", text |-> text]
Listing(entries) == [t |-> "listing", entries |-> entries]

\* A directory entry: a file with its text, or a subdirectory (reading it as
\* a file throws).
File(name, content) == [name |-> name, kind |-> "file", content |-> content]
Dir(name) == [name |-> name, kind |-> "dir", content |-> <<>>]

\* Lines 159-203 for the file at index i, whose rules gave r: fixedCount
\* grows, and the file is written when a rule matched.
Scanned(acc, i, name, r) ==
  [acc EXCEPT !.read = @ \cup {name},
              !.count = @ + r.count,
              !.written = IF r.modified THEN @ \cup {name} ELSE @,
              !.models = IF r.modified
                         THEN [acc.models EXCEPT !.entries[i].content = r.content]
                         ELSE @]

\* Lines 156-204: the loop over the entries from index i on.  acc.threw
\* becomes TRUE when readFileSync throws, which leaves the loop.
RECURSIVE ScanFiles(_, _)
ScanFiles(i, acc) ==
  IF i > Len(acc.models.entries) \/ acc.threw THEN acc
  ELSE LET f == acc.models.entries[i] IN
       IF ~IsModelFile(f.name) THEN ScanFiles(i + 1, acc)
       ELSE IF f.kind = "dir" THEN [acc EXCEPT !.threw = TRUE]
       ELSE ScanFiles(i + 1, Scanned(acc, i, f.name, FixFile(f.content)))

\* fixEmptyTypes() (lines 151-214): the models left on disk, fixedCount, the
\* names read and written, and the kinds of its summary lines.  Every
\* exception is caught inside, so the caller never sees one.
FixEmptyTypes(models) ==
  IF models = Unlistable
  THEN [models |-> models, count |-> 0, read |-> {}, written |-> {},
        log |-> <<"warn-types">>, crashed |-> FALSE]
  ELSE LET r == ScanFiles(1, [models |-> models, count |-> 0, read |-> {},
                              written |-> {}, threw |-> FALSE])
       IN [models |-> r.models, count |-> r.count, read |-> r.read,
           written |-> r.written,
           log |-> IF r.threw THEN <<"warn-types">>
                   ELSE IF r.count > 0 THEN <<"fixed-total">>
                   ELSE <<"none-found">>,
           crashed |-> FALSE]

SandboxBase == "https://sandbox.api.pi-bceao.com/piz/v1"
TargetVersion == "1.0.0"

\* The last quote on the line of token i, from token i on (0 if none).
LastQuoteOnLine(c, i) ==
  LET lineEnd == MinOf({j \in i..(Len(c) + 1) : j = Len(c) + 1 \/ c[j] = "\n"})
      quotes == {j \in i..(lineEnd - 1) : c[j] = "'"}
  IN IF quotes = {} THEN 0 ELSE CHOOSE m \in quotes : \A n \in quotes : n <= m

\* content.replace(/KEY: '.*'/, "KEY: 'value'"): the first match; `.*` is
\* greedy and does not cross a line end.
ReplaceAssignment(c, key, value) ==
  LET found == {i \in 1..Len(c) :
                  /\ c[i] = key /\ i + 2 <= Len(c) /\ c[i + 1] = "'"
                  /\ LastQuoteOnLine(c, i + 2) > 0}
  IN IF found = {} THEN c
     ELSE LET i == MinOf(found) IN
          SubSeq(c, 1, i - 1) \o <<key, "'", value, "'">>
            \o SubSeq(c, LastQuoteOnLine(c, i + 2) + 1, Len(c))

\* Mutant of UpdateConfig: a missing file is an uncaught exception.
UpdateConfigUncaught(config) ==
  [config |-> config, log |-> <<>>, crashed |-> config = Missing]

\* Lines 216-230: the configuration rewrite inside its try/catch.
UpdateConfig(config) ==
  IF config = Missing
  THEN [config |-> config, log |-> <<"warn-config">>, crashed |-> FALSE]
  ELSE [config |-> TextFile(ReplaceAssignment(
                                ReplaceAssignment(config.text, "BASE: ", SandboxBase),
                                "VERSION: ", TargetVersion)),
        log |-> <<"updated-config">>, crashed |-> FALSE]

(***************************************************************************)
(* Files the Patcher is run on.                                            *)
(***************************************************************************)
EmptyLine(typeName) == EmptyDeclaration(typeName) \o <<"\n">>

ModelLines ==
  {EmptyLine(n) : n \in {"CompteTransfertIntraRequest", "WebhookModificationRequest",
                         "remise", "SomeUnknownType", "toString"}} \cup
  { <<T_export, "CompteTransfertIntraRequest", T_eq, " ", ";", "\n">>,
    <<" ", " ", "remise", "?", ":", " ", ";", "\n">>,
    <<" ", "remise", ":", " ", ";", "\n">>,
    <<"{", "remise", ":", " ", ";", "\n">>,
    <<"{", "remise", ":", ";", "\n">>,
    <<T_export, "Montant", T_eq, "number", ";", "\n">> }

RECURSIVE Flatten(_)
Flatten(ls) == IF ls = <<>> THEN <<>> ELSE ls[1] \o Flatten(Tail(ls))

ModelTexts == {Flatten(ls) : ls \in SeqsUpTo(ModelLines, MaxLines)}

SmallTexts == { EmptyLine("remise"), <<T_export, "Montant", T_eq, "number", ";", "\n">> }

ConfigTexts ==
  { <<"BASE: ", "'", "https://api.example.com", "'", ",", "\n",
      "VERSION: ", "'", "0.1", "'", ",", "\n">>,
    <<"BASE: ", "'", "", "'", ",", " ", "VERSION: ", "'", "0.1", "'", ",", "\n">>,
    <<"TOKEN: ", "undefined", ",", "\n">> }

(***************************************************************************)
(* The Patcher as a state machine: the configuration rewrite, the call of  *)
(* fixEmptyTypes and the final log line are the script's three steps.      *)
(***************************************************************************)
InitPatch ==
  /\ NormIdle
  /\ QueryIdle
  /\ ErrIdle
  /\ RetryIdle
  /\ FacadeIdle
  /\ pc = "config"
  /\ pConfig \in {Missing} \cup {TextFile(t) : t \in ConfigTexts}
  /\ \/ pModels = Unlistable
     \/ \E first \in {<<>>, <<Dir("Alias.ts")>>} \cup {<<File("Alias.ts", t)>> : t \in SmallTexts} :
        \E second \in {<<>>} \cup {<<File("README.md", t)>> : t \in SmallTexts} :
        \E third \in {<<>>} \cup {<<File("Remise.ts", t)>> : t \in ModelTexts} :
        \E fourth \in {<<>>, <<File("index.tsx", EmptyLine("remise"))>>} :
          pModels = Listing(first \o second \o third \o fourth)
  /\ pFixed = 0 /\ pRead = {} /\ pWritten = {} /\ pLog = <<>> /\ pExit = -1
  /\ pRun = 1
  /\ pStart = [config |-> pConfig, models |-> pModels]
  /\ pInitial = [config |-> pConfig, models |-> pModels]

ConfigStep ==
  /\ pc = "config"
  /\ \E r \in {UpdateConfig(pConfig)} :
       /\ pConfig' = r.config
       /\ pLog' = pLog \o r.log
       /\ pc' = IF r.crashed THEN "exited" ELSE "fix"
       /\ pExit' = IF r.crashed THEN 1 ELSE pExit
  /\ UNCHANGED <<pModels, pFixed, pRead, pWritten, pRun, pStart, pInitial>>
  /\ UNCHANGED <<normVars, qbVars, errVars, retryVars, facadeVars>>

FixStep ==
  /\ pc = "fix"
  /\ \E r \in {FixEmptyTypes(pModels)} :
       /\ pModels' = r.models
       /\ pFixed' = r.count
       /\ pRead' = r.read
       /\ pWritten' = r.written
       /\ pLog' = pLog \o <<"fixing">> \o r.log
       /\ pc' = IF r.crashed THEN "exited" ELSE "complete"
       /\ pExit' = IF r.crashed THEN 1 ELSE pExit
  /\ UNCHANGED <<pConfig, pRun, pStart, pInitial>>
  /\ UNCHANGED <<normVars, qbVars, errVars, retryVars, facadeVars>>

CompleteStep ==
  /\ pc = "complete"
  /\ pLog' = Append(pLog, "complete")
  /\ pExit' = 0
  /\ pc' = "exited"
  /\ UNCHANGED <<pConfig, pModels, pFixed, pRead, pWritten, pRun, pStart, pInitial>>
  /\ UNCHANGED <<normVars, qbVars, errVars, retryVars, facadeVars>>

\* The build runs the script again on what the previous run left.
PatcherRerun ==
  /\ pc = "exited"
  /\ pRun < MaxPatchRuns
  /\ pc' = "config"
  /\ pRun' = pRun + 1
  /\ pStart' = [config |-> pConfig, models |-> pModels]
  /\ pFixed' = 0 /\ pRead' = {} /\ pWritten' = {} /\ pLog' = <<>> /\ pExit' = -1
  /\ UNCHANGED <<pConfig, pModels, pInitial>>
  /\ UNCHANGED <<normVars, qbVars, errVars, retryVars, facadeVars>>

NextPatch == ConfigStep \/ FixStep \/ CompleteStep \/ PatcherRerun

SpecPatch == InitPatch /\ [][NextPatch]_vars

(***************************************************************************)
(* Properties of the Patcher.                                              *)
(***************************************************************************)
\* The three keys of the correction table.
KnownNames == {"CompteTransfertIntraRequest", "WebhookModificationRequest", "remise"}

\* `export type <Name> = <table[Name]>;`
ExpectedDeclaration(name) == <<"export type ", name, " = ", emptyTypeFixes[name], ";">>

\* The number of places at which the token sequence lit occurs in c.
Occurrences(c, lit) ==
  Cardinality({i \in 1..(Len(c) - Len(lit) + 1) : SubSeq(c, i, i + Len(lit) - 1) = lit})

\* The call of fixEmptyTypes of the current run has returned.
FixDone == pc = "complete" \/ (pc = "exited" /\ pExit = 0)

\* The entries of the directory the current run has read as files.
ReadEntries ==
  {i \in 1..Len(pStart.models.entries) : pStart.models.entries[i].name \in pRead}

ContentAtStart(i) == pStart.models.entries[i].content
ContentNow(i) == pModels.entries[i].content

\* The empty declarations of a text, for any name and any whitespace.
EmptyDeclarations(c) == {i \in 1..Len(c) : EmptyTypeEnd(c, i) > 0}

\* No pattern of the two remise rules occurs in the text.
NoRemiseField(c) == ~RemisePatternTest(c) /\ ~IncludesRemiseLiteral(c)

\* The only defects of the text, if any, are declarations that read exactly
\* `export type <Name> = ;` with <Name> taken from names.
OnlyLiteralDefects(c, names) ==
  /\ NoRemiseField(c)
  /\ \A i \in EmptyDeclarations(c) : c[i + 1] \in names /\ EmptyTypeEnd(c, i) = i + 3

RECURSIVE TotalDeclarations(_)
TotalDeclarations(S) ==
  IF S = {} THEN 0
  ELSE LET i == CHOOSE j \in S : TRUE
       IN Cardinality(EmptyDeclarations(ContentAtStart(i))) + TotalDeclarations(S \ {i})

\* C6: in a model file the repair reads, every declaration
\* `export type <Name> = ;` of a table key <Name> reads
\* `export type <Name> = <table[Name]>;` after the run, with the body of the
\* table; where such declarations are the only defects of the files, one fix
\* is counted for each; and a second run over the files so fixed counts no
\* fix, rewrites no file and leaves the content as it is.
C6_RepairExactAndIdempotent ==
  (FixDone /\ pModels.t = "listing") =>
    /\ \A i \in ReadEntries : \A name \in KnownNames :
         /\ Occurrences(ContentNow(i), EmptyDeclaration(name)) = 0
         /\ Occurrences(ContentNow(i), ExpectedDeclaration(name))
              = Occurrences(ContentAtStart(i), EmptyDeclaration(name))
                  + Occurrences(ContentAtStart(i), ExpectedDeclaration(name))
    /\ (\A i \in ReadEntries : OnlyLiteralDefects(ContentAtStart(i), KnownNames))
         => (pFixed = TotalDeclarations(ReadEntries))
    /\ (pRun = 2) =>
         /\ \A i \in ReadEntries :
              OnlyLiteralDefects(pInitial.models.entries[i].content, KnownNames)
                => /\ pStart.models.entries[i].name \notin pWritten
                   /\ ContentNow(i) = ContentAtStart(i)
         /\ (\A i \in ReadEntries :
               OnlyLiteralDefects(pInitial.models.entries[i].content, KnownNames))
              => (pFixed = 0)

\* A second run has passed over a file the first run fixed two declarations of.
C6_Witness ==
  /\ pRun = 2 /\ pc = "exited" /\ pModels.t = "listing"
  /\ pFixed = 0 /\ pWritten = {} /\ pRead # {}
  /\ \E i \in ReadEntries :
       /\ OnlyLiteralDefects(pInitial.models.entries[i].content, KnownNames)
       /\ Occurrences(pInitial.models.entries[i].content, EmptyDeclaration("remise")) = 1
       /\ Occurrences(pInitial.models.entries[i].content,
                      EmptyDeclaration("CompteTransfertIntraRequest")) = 1
       /\ Occurrences(ContentNow(i), ExpectedDeclaration("remise")) = 1
       /\ Occurrences(ContentNow(i), ExpectedDeclaration("CompteTransfertIntraRequest")) = 1

\* C7: a file whose only defect is `export type <Identifier> = ;`, with
\* <Identifier> none of the three table keys, is not rewritten, keeps its
\* content, and has no fix counted for it.
C7_UnknownLeftAlone ==
  (FixDone /\ pModels.t = "listing") =>
    \A i \in ReadEntries :
      (/\ EmptyDeclarations(ContentAtStart(i)) # {}
       /\ OnlyLiteralDefects(ContentAtStart(i), Identifiers \ KnownNames))
        => /\ pStart.models.entries[i].name \notin pWritten
           /\ ContentNow(i) = ContentAtStart(i)
           /\ ((\A j \in ReadEntries \ {i} :
                  OnlyLiteralDefects(ContentAtStart(j), {})) => (pFixed = 0))

\* text.endsWith(".ts"), on the names of the directory.
EndsWithTs(name) ==
  LET cs == Chars(name) IN
  Len(cs) >= 3 /\ cs[Len(cs) - 2] = "." /\ cs[Len(cs) - 1] = "t" /\ cs[Len(cs)] = "s"

\* A pattern of one of the three repair rules occurs in the text.
SomeRulePattern(c) ==
  EmptyDeclarations(c) # {} \/ RemisePatternTest(c) \/ IncludesRemiseLiteral(c)

\* C8: the repair writes an entry of the models directory only if its
\* name ends with `.ts` and a repair rule matched in it; it reads no entry
\* of another name, and every entry it does not write is after the run what
\* it was before.
C8_WriteFrame ==
  /\ (pc \in {"config", "fix"}) => (pModels = pStart.models)
  /\ (FixDone /\ pModels.t = "listing") =>
       /\ Len(pModels.entries) = Len(pStart.models.entries)
       /\ pWritten \subseteq pRead
       /\ \A name \in pRead : EndsWithTs(name)
       /\ \A i \in 1..Len(pStart.models.entries) :
            LET before == pStart.models.entries[i] IN
            /\ pModels.entries[i].name = before.name
            /\ pModels.entries[i].kind = before.kind
            /\ (before.name \in pWritten) =>
                 /\ EndsWithTs(before.name)
                 /\ SomeRulePattern(before.content)
            /\ (before.name \notin pWritten) => (pModels.entries[i] = before)

\* One .ts file was written, another was read and left alone, and a file of
\* another extension holding an empty declaration was not touched.
C8_Witness ==
  /\ FixDone /\ pModels.t = "listing"
  /\ pWritten = {"Remise.ts"} /\ pRead = {"Alias.ts", "Remise.ts"}
  /\ \E i \in 1..Len(pModels.entries) :
       /\ pModels.entries[i] = File("README.md", EmptyLine("remise"))
       /\ pStart.models.entries[i] = pModels.entries[i]

\* C9: no run of the Patcher ends otherwise than by its final
\* 'setup complete' step with exit code zero, and until then it stands
\* before one of its three steps, none of which waits for anything; a
\* missing configuration file is
\* left missing with a warning and the repair is still called; an
\* unlistable models directory gives a warning, and the configuration is
\* after the repair what the configuration rewrite made of it.
C9_NeverFailsTheBuild ==
  /\ (pc = "exited") =>
       /\ pExit = 0
       /\ pLog # <<>> /\ pLog[Len(pLog)] = "complete"
       /\ \E k \in 1..Len(pLog) : pLog[k] = "fixing"
  /\ pc \in {"config", "fix", "complete", "exited"}
  /\ (pc # "config" /\ pStart.config = Missing) =>
       /\ pConfig = Missing
       /\ pLog[1] = "warn-config"
  /\ (pc # "config" /\ pStart.config # Missing) =>
       /\ pConfig = UpdateConfig(pStart.config).config
       /\ pLog[1] = "updated-config"
  /\ (FixDone /\ pStart.models = Unlistable) =>
       /\ pModels = Unlistable
       /\ \E k \in 1..Len(pLog) : pLog[k] = "warn-types"

\* A run found neither the configuration file nor the models directory.
C9_Witness ==
  /\ pc = "exited" /\ pExit = 0
  /\ pStart.config = Missing /\ pStart.models = Unlistable
  /\ pLog = <<"warn-config", "fixing", "warn-types", "complete">>

(***************************************************************************)
(* src/utils/index.ts: QueryBuilder.  A method is an operator from the     *)
(* builder (`this`: the four private fields) and the arguments to the      *)
(* builder it leaves and the way the call ends.                            *)
(***************************************************************************)
Bool(b) == [t |-> "bool", b |-> b]

RECURSIVE Join(_, _)
\* String(v), and Array.prototype.join for an array.
JsString(v) ==
  CASE v.t = "str" -> v.s
    [] v.t = "num" -> ToString(v.n)
    [] v.t = "bool" -> (IF v.b THEN "true" ELSE "false")
    [] v.t = "arr" -> Join(v.items, ",")
    [] v.t = "undefined" -> "undefined"
    [] OTHER -> "null"

Join(items, sep) ==
  IF items = <<>> THEN ""
  ELSE IF Len(items) = 1 THEN JsString(items[1])
  ELSE JsString(items[1]) \o sep \o Join(Tail(items), sep)

\* obj[key] = value on a mapping.
SetKey(m, key, value) ==
  [k \in DOMAIN m \cup {key} |-> IF k = key THEN value ELSE m[k]]

\* A list of pairs that keeps every pair it is given: not what a Map does.
MapSetAppending(entries, key, value) ==
  Append(entries, [field |-> key, filter |-> value])

\* Map.prototype.set: the entry of an existing key is replaced where it is,
\* a new key goes to the end.
MapSet(entries, key, value) ==
  IF \E i \in 1..Len(entries) : entries[i].field = key
  THEN [i \in 1..Len(entries) |->
          IF entries[i].field = key THEN [entries[i] EXCEPT !.filter = value]
          ELSE entries[i]]
  ELSE Append(entries, [field |-> key, filter |-> value])

ReturnsThis(this) == [this |-> this, ret |-> [kind |-> "this"]]
Throws(this, message) == [this |-> this, ret |-> [kind |-> "thrown", message |-> message]]
Returns(this, value) == [this |-> this, ret |-> [kind |-> "returned", value |-> value]]

\* Lines 462-477.
isOperator(value) ==
  value \in {"eq", "ne", "gt", "gte", "lt", "lte", "in", "contains",
             "notContains", "beginsWith", "endsWith", "exists"}

\* Lines 284-306.  A call with two arguments has value = Undefined.
filter(this, field, operatorOrValue, value) ==
  IF value = Undefined /\ operatorOrValue.t = "str" /\ isOperator(operatorOrValue.s)
  THEN Throws(this, "Filter operator requires a value")
  ELSE ReturnsThis(
         [this EXCEPT !.filters =
            MapSet(@, field,
                   IF value = Undefined
                   THEN [operator |-> Str("eq"), value |-> operatorOrValue]
                   ELSE [operator |-> operatorOrValue, value |-> value])])

\* Lines 311-362: the shorthands.
eq(this, field, value) == filter(this, field, Str("eq"), value)
ne(this, field, value) == filter(this, field, Str("ne"), value)
gt(this, field, value) == filter(this, field, Str("gt"), value)
gte(this, field, value) == filter(this, field, Str("gte"), value)
lt(this, field, value) == filter(this, field, Str("lt"), value)
lte(this, field, value) == filter(this, field, Str("lte"), value)
in(this, field, values) == filter(this, field, Str("in"), values)
contains(this, field, value) == filter(this, field, Str("contains"), value)

\* The shorthand of the given name.
Shorthand(method, this, field, value) ==
  CASE method = "eq" -> eq(this, field, value)
    [] method = "ne" -> ne(this, field, value)
    [] method = "gt" -> gt(this, field, value)
    [] method = "gte" -> gte(this, field, value)
    [] method = "lt" -> lt(this, field, value)
    [] method = "lte" -> lte(this, field, value)
    [] method = "in" -> in(this, field, value)
    [] method = "contains" -> contains(this, field, value)

\* Lines 369-373.
sort(this, field, order) ==
  ReturnsThis([this EXCEPT !.sortField = field, !.sortOrder = order])

\* Lines 378-380.
sortDesc(this, field) == sort(this, field, "desc")

\* Lines 385-388.
page(this, p) ==
  ReturnsThis([this EXCEPT !.params =
                 SetKey(@, "page", IF p.t = "str" THEN p ELSE Str(ToString(p.n)))])

\* Mutant of size: the upper bound is exclusive.
sizeBelowHundred(this, n) ==
  IF n < 1 THEN Throws(this, "Page size must be at least 1")
  ELSE IF n >= 100 THEN Throws(this, "Page size cannot exceed 100")
  ELSE ReturnsThis([this EXCEPT !.params = SetKey(@, "size", Num(n))])

\* Lines 393-402.
size(this, n) ==
  IF n < 1 THEN Throws(this, "Page size must be at least 1")
  ELSE IF n > 100 THEN Throws(this, "Page size cannot exceed 100")
  ELSE ReturnsThis([this EXCEPT !.params = SetKey(@, "size", Num(n))])

\* Lines 407-410.
param(this, key, value) ==
  ReturnsThis([this EXCEPT !.params = SetKey(@, key, value)])

\* Mutant of FilterKey: the operator is always written out.
FilterKeyAlwaysBracketed(field, operator) ==
  field \o "[" \o JsString(operator) \o "]"

\* Lines 420-429: the key a filter is written under.
FilterKey(field, operator) ==
  IF operator = Str("eq") THEN field
  ELSE IF operator = Str("exists") THEN field \o "[exists]"
  ELSE field \o "[" \o JsString(operator) \o "]"

\* Lines 420-429: the value a filter is written as.
FilterValue(operator, value) ==
  IF operator = Str("eq") THEN Str(JsString(value))
  ELSE IF operator = Str("exists") THEN Str(JsString(value))
  ELSE IF IsArray(value) THEN Str(Join(value.items, ","))
  ELSE Str(JsString(value))

RECURSIVE AddFilters(_, _, _)
\* Lines 419-430: the loop over this.filters.entries().
AddFilters(result, entries, i) ==
  IF i > Len(entries) THEN result
  ELSE AddFilters(
         SetKey(result, FilterKey(entries[i].field, entries[i].filter.operator),
                FilterValue(entries[i].filter.operator, entries[i].filter.value)),
         entries, i + 1)

\* Lines 433-435.
AddSort(result, this) ==
  IF ~Falsy(this.sortField)
  THEN SetKey(result, "sort",
              IF this.sortOrder = "desc" THEN Str("-" \o this.sortField.s)
              ELSE this.sortField)
  ELSE result

\* The mapping build() returns is an object of its own (line 416: a new
\* object literal the parameters are spread into), not this.params.
ReturnsNew(this, value) ==
  [this |-> this, ret |-> [kind |-> "returned", value |-> value, object |-> "new"]]

\* Mutant of build: with no filter and no sort, this.params itself is returned.
buildReturningParams(this) ==
  IF this.filters = <<>> /\ Falsy(this.sortField)
  THEN [this |-> this,
        ret |-> [kind |-> "returned", value |-> this.params, object |-> "params"]]
  ELSE ReturnsNew(this, AddSort(AddFilters(this.params, this.filters, 1), this))

\* Lines 415-438.
build(this) == ReturnsNew(this, AddSort(AddFilters(this.params, this.filters, 1), this))

\* Lines 443-449: the pairs the query string is joined from, each a key and
\* String(value), undefined values left out; '' when there is none.  (The
\* percent-encoding of the pairs and their order are left out.)
buildQueryString(this) ==
  LET built == build(this).ret.value
      pairs == {<<k, JsString(built[k])>> : k \in {j \in DOMAIN built : built[j] # Undefined}}
  IN [this |-> this, ret |-> [kind |-> "string", empty |-> pairs = {}, pairs |-> pairs]]

\* Lines 454-460.
reset(this) ==
  ReturnsThis([this EXCEPT !.params = <<>>, !.filters = <<>>,
                           !.sortField = Undefined, !.sortOrder = "asc"])

(***************************************************************************)
(* Calls made on one builder.                                              *)
(***************************************************************************)
Fields == {"montant", "statut", "sort"}

\* (operatorOrValue, value) of the calls of filter.
FilterInputs ==
  { <<Str("gte"), Num(10000)>>, <<Str("eq"), Str("IRREVOCABLE")>>,
    <<Str("exists"), Bool(TRUE)>>,
    <<Str("IRREVOCABLE"), Undefined>>, <<Num(10000), Undefined>>,
    <<Str("gte"), Undefined>> }

\* (method, value) of the calls of the shorthands.
ShorthandInputs ==
  { <<"lte", Num(10000)>>, <<"in", Arr(<<Str("INITIE"), Str("IRREVOCABLE")>>)>>,
    <<"eq", Str("IRREVOCABLE")>>, <<"gte", Num(10000)>> }

SortFields == {"dateCreation", ""}
PageInputs == {Num(1), Str("1")}
SizeInputs == {0, 1, 50, 100, 101}
ParamInputs == { <<"size", Num(500)>>, <<"statut", Str("x")>> }

This ==
  [params |-> params, filters |-> filters, sortField |-> sortField, sortOrder |-> sortOrder]

\* What a call of filter asks for: a call with two arguments is an `eq`.
Asked(operatorOrValue, value) ==
  IF value = Undefined THEN [operator |-> Str("eq"), value |-> operatorOrValue]
  ELSE [operator |-> operatorOrValue, value |-> value]

\* The call ends: the builder is as the method left it.
EndsAs(r, latest) ==
  /\ params' = r.this.params
  /\ filters' = r.this.filters
  /\ sortField' = r.this.sortField
  /\ sortOrder' = r.this.sortOrder
  /\ qRet' = r.ret
  /\ qLatest' = latest
  /\ UNCHANGED <<normVars, patchVars, errVars, retryVars, facadeVars>>

\* The end of a call that is no call of filter.
Ends(r) == EndsAs(r, qLatest)

\* The end of a call of filter on a field: when it did not throw, it is
\* the latest call on the field.
EndsFilter(r, field, asked) ==
  EndsAs(r, IF r.ret.kind = "this" THEN SetKey(qLatest, field, asked) ELSE qLatest)

\* The model holds at most MaxFilters entries in the Map.
WithinFilters(field) ==
  \/ \E i \in 1..Len(filters) : filters[i].field = field
  \/ Len(filters) < MaxFilters

Filter ==
  \E field \in Fields, args \in FilterInputs :
    /\ WithinFilters(field)
    /\ \E r \in {filter(This, field, args[1], args[2])} :
         EndsFilter(r, field, Asked(args[1], args[2]))

ShorthandCall ==
  \E field \in Fields, args \in ShorthandInputs :
    /\ WithinFilters(field)
    /\ \E r \in {Shorthand(args[1], This, field, args[2])} :
         EndsFilter(r, field, [operator |-> Str(args[1]), value |-> args[2]])

Sort ==
  \E field \in SortFields, order \in {"asc", "desc"} :
    \E r \in {sort(This, Str(field), order)} : Ends(r)

SortDesc == \E field \in SortFields : \E r \in {sortDesc(This, Str(field))} : Ends(r)

Page == \E p \in PageInputs : \E r \in {page(This, p)} : Ends(r)

\* The call size(n).
SizeOf(n) == \E r \in {size(This, n)} : Ends(r)

Size == \E n \in SizeInputs : SizeOf(n)

Param == \E kv \in ParamInputs : \E r \in {param(This, kv[1], kv[2])} : Ends(r)

Build == \E r \in {build(This)} : Ends(r)

Reset == \E r \in {reset(This)} : EndsAs(r, <<>>)

InitQB == NormIdle /\ PatchIdle /\ QueryIdle /\ ErrIdle /\ RetryIdle /\ FacadeIdle

NextQB ==
  Filter \/ ShorthandCall \/ Sort \/ SortDesc \/ Page \/ Size \/ Param \/ Build \/ Reset

SpecQB == InitQB /\ [][NextQB]_vars

BuildQueryString == \E r \in {buildQueryString(This)} : Ends(r)

\* What the caller assigns into a mapping build() returned.
MutationInputs == { <<"page", Str("9")>>, <<"size", Num(7)>> }

\* The caller assigns a key of the mapping the latest build() returned.  The
\* builder sees the assignment only if the mapping is its own this.params.
MutateReturned ==
  /\ qRet.kind = "returned"
  /\ \E kv \in MutationInputs :
       /\ qRet' = [kind |-> "mutated", value |-> SetKey(qRet.value, kv[1], kv[2]),
                   built |-> qRet.value]
       /\ params' = IF qRet.object = "params" THEN SetKey(params, kv[1], kv[2]) ELSE params
  /\ UNCHANGED <<filters, sortField, sortOrder, qLatest>>
  /\ UNCHANGED <<normVars, patchVars, errVars, retryVars, facadeVars>>

\* The builder together with a caller that keeps and changes what build()
\* returned.  The caller uses the methods that write the fields of the
\* builder (the shorthands, sortDesc and size write them through these or as
\* param does).
NextQBCaller ==
  Filter \/ Sort \/ Page \/ Param \/ Reset \/ Build \/ BuildQueryString \/ MutateReturned

SpecQBCaller == InitQB /\ [][NextQBCaller]_vars

(***************************************************************************)
(* Properties of the QueryBuilder.                                         *)
(***************************************************************************)
\* The latest call was build(): it returned a mapping and left the builder
\* as the state shows it.
Built == qRet.kind = "returned"

\* field for `eq`, field[operator] for every other operator.
ExpectedKey(f) ==
  IF f.filter.operator = Str("eq") THEN f.field
  ELSE f.field \o "[" \o f.filter.operator.s \o "]"

\* String(value) for the values of the calls, arrays joined by commas.
ExpectedText(v) ==
  CASE v = Num(10000) -> "10000"
    [] v = Str("IRREVOCABLE") -> "IRREVOCABLE"
    [] v = Bool(TRUE) -> "true"
    [] v = Arr(<<Str("INITIE"), Str("IRREVOCABLE")>>) -> "INITIE,IRREVOCABLE"

\* f for ascending, '-' + f for descending.
ExpectedSort == IF sortOrder = "desc" THEN "-" \o sortField.s ELSE sortField.s

\* A sort field has been set, and is not the empty string.
SortSet == sortField # Undefined /\ sortField # Str("")

\* The last filter in insertion order written under key k (0: none).
LastWriter(k) ==
  LET writers == {i \in 1..Len(filters) : ExpectedKey(filters[i]) = k}
  IN IF writers = {} THEN 0 ELSE CHOOSE i \in writers : \A j \in writers : j <= i

ExampleFilters ==
  << [field |-> "montant", filter |-> [operator |-> Str("gte"), value |-> Num(10000)]],
     [field |-> "statut", filter |-> [operator |-> Str("eq"), value |-> Str("IRREVOCABLE")]] >>

ExampleParams == ("page" :> Str("1")) @@ ("size" :> Num(50))

ExampleResult ==
  ("page" :> Str("1")) @@ ("size" :> Num(50)) @@ ("montant[gte]" :> Str("10000"))
    @@ ("statut" :> Str("IRREVOCABLE")) @@ ("sort" :> Str("-dateCreation"))

\* C10 as stated: build() holds, for every accumulated filter, the entry
\* field = String(value) for `eq` and field[operator] = the value as a
\* string (arrays joined by commas) otherwise; page as a string, size as a
\* number; and for a sort field f the entry sort = f or '-' + f.
C10_EveryFilterAndSortRendered ==
  Built =>
    /\ \A i \in 1..Len(filters) :
         /\ ExpectedKey(filters[i]) \in DOMAIN qRet.value
         /\ qRet.value[ExpectedKey(filters[i])] = Str(ExpectedText(filters[i].filter.value))
    /\ ("page" \in DOMAIN params) => (qRet.value["page"].t = "str")
    /\ ("size" \in DOMAIN params) => (qRet.value["size"].t = "num")
    /\ SortSet => ("sort" \in DOMAIN qRet.value /\ qRet.value["sort"] = Str(ExpectedSort))

\* C10: the keys of build() are those of the parameters, of the
\* filters and, when a non-empty sort field is set, `sort`; under `sort` is
\* then f or '-' + f, else under the key of a filter is the string of the
\* last filter with that key, else the parameter as it was set, page by
\* page() being a string and size by size() a number; the chain of the
\* example builds the mapping of the example.
C10_BuildRendering ==
  Built =>
    /\ DOMAIN qRet.value =
         DOMAIN params \cup {ExpectedKey(filters[i]) : i \in 1..Len(filters)}
           \cup (IF SortSet THEN {"sort"} ELSE {})
    /\ \A k \in DOMAIN qRet.value :
         qRet.value[k] =
           IF SortSet /\ k = "sort" THEN Str(ExpectedSort)
           ELSE IF LastWriter(k) # 0
           THEN Str(ExpectedText(filters[LastWriter(k)].filter.value))
           ELSE params[k]
    /\ ("page" \in DOMAIN params) => (params["page"] = Str("1"))
    /\ ("size" \in DOMAIN params) => (params["size"] \in {Num(1), Num(50), Num(100), Num(500)})
    /\ (/\ params = ExampleParams /\ filters = ExampleFilters
        /\ sortField = Str("dateCreation") /\ sortOrder = "desc")
         => (qRet.value = ExampleResult)

\* The chain of the example has been built.
C10_Witness ==
  /\ Built
  /\ params = ExampleParams /\ filters = ExampleFilters
  /\ sortField = Str("dateCreation") /\ sortOrder = "desc"
  /\ qRet.value = ExampleResult

\* A call of size has thrown.
SizeThrown ==
  /\ qRet.kind = "thrown"
  /\ qRet.message \in {"Page size must be at least 1", "Page size cannot exceed 100"}

\* C11: size(n) throws at the call when n < 1 or n > 100, and leaves
\* the builder as it was; for 1 <= n <= 100 it returns the builder with
\* size = n and nothing else changed; a build() shows the size the builder
\* holds, or none.
C11_SizeBoundAtCallTime ==
  /\ [][\A n \in SizeInputs :
          SizeOf(n) =>
            IF n < 1 \/ n > 100
            THEN /\ qRet'.kind = "thrown"
                 /\ UNCHANGED <<params, filters, sortField, sortOrder>>
            ELSE /\ qRet'.kind = "this"
                 /\ DOMAIN params' = DOMAIN params \cup {"size"}
                 /\ params'["size"] = Num(n)
                 /\ \A k \in DOMAIN params \ {"size"} : params'[k] = params[k]
                 /\ UNCHANGED <<filters, sortField, sortOrder>>]_vars
  /\ [](Built => /\ ("size" \in DOMAIN qRet.value) = ("size" \in DOMAIN params)
                 /\ ("size" \in DOMAIN params) => (qRet.value["size"] = params["size"]))

\* size(1) succeeded, and a later call of size threw and left size = 1.
C11_Witness ==
  /\ SizeThrown
  /\ "size" \in DOMAIN params /\ params["size"] = Num(1)

(***************************************************************************)
(* src/errors.ts and handleApiError (src/utils/index.ts), and              *)
(* BaseService.execute.  A thrown value is a JavaScript value; an object   *)
(* has a class, its properties, and a reference that tells it from every   *)
(* other object (0: made by the handler during the call).                  *)
(***************************************************************************)
Object(class, ref, props) == [t |-> "obj", class |-> class, ref |-> ref, props |-> props]

\* x || y
Or(x, y) == IF Falsy(x) THEN y ELSE x

\* body?.key
OptionalGet(body, key) == IF body.t \in {"undefined", "null"} THEN Undefined ELSE Get(body, key)

\* 'key' in error
In(key, error) == HasProps(error) /\ HasKey(error.props, key)

\* super(message) of Error: the message as a string.
ErrorMessage(message) == IF message = Undefined THEN Str("") ELSE Str(JsString(message))

\* errors.ts lines 5-28.
PiSpiError(message, statusCode, statusText, type, detail, instance) ==
  Object("PiSpiError", 0,
    << <<"message", ErrorMessage(message)>>, <<"name", Str("PiSpiError")>>,
       <<"statusCode", statusCode>>, <<"statusText", statusText>>,
       <<"type", type>>, <<"detail", detail>>, <<"instance", instance>> >>)

\* A subclass: the base constructor ran, then name is set again.
Subclass(base, class) ==
  [base EXCEPT !.class = class, !.props = SetProp(@, "name", Str(class))]

\* errors.ts lines 30-45.
PiSpiValidationError(message, statusCode, statusText, errors, type, detail) ==
  Set(Subclass(PiSpiError(message, statusCode, statusText, type, detail, Undefined),
               "PiSpiValidationError"),
      "errors", errors)

\* errors.ts lines 47-52.
PiSpiAuthError(message, statusCode, statusText) ==
  Subclass(PiSpiError(message, statusCode, statusText, Undefined, Undefined, Undefined),
           "PiSpiAuthError")

\* errors.ts lines 54-59.
PiSpiNotFoundError(message, statusCode, statusText) ==
  Subclass(PiSpiError(message, statusCode, statusText, Undefined, Undefined, Undefined),
           "PiSpiNotFoundError")

\* errors.ts lines 61-69.
PiSpiRateLimitError(message, statusCode, statusText, retryAfter) ==
  Set(Subclass(PiSpiError(message, statusCode, statusText, Undefined, Undefined, Undefined),
               "PiSpiRateLimitError"),
      "retryAfter", retryAfter)

ThrowsValue(value) == [kind |-> "thrown", value |-> value]
ReturnsValue(value) == [kind |-> "returned", value |-> value]

\* A test on statusText alone: not the test of the code.
isApiErrorByStatusText(error) ==
  /\ ~Falsy(error)
  /\ TypeofObject(error)
  /\ In("statusText", error)

\* Lines 158-163.
isApiError(error) ==
  /\ ~Falsy(error)
  /\ TypeofObject(error)
  /\ In("status", error)
  /\ In("statusText", error)
  /\ In("body", error)

\* Mutant of ErrorForStatus: every status gives the generic error.
ErrorForStatusAlwaysGeneric(apiError, status, body, type, title, detail, instance) ==
  PiSpiError(Or(Or(Or(detail, title), Get(apiError, "message")), Str("API error")),
             status, Get(apiError, "statusText"), type, detail, instance)

\* Lines 176-237: the error made for the status.
ErrorForStatus(apiError, status, body, type, title, detail, instance) ==
  IF status = Num(400)
  THEN PiSpiValidationError(Or(Or(detail, title), Str("Validation error")),
                            status, Get(apiError, "statusText"),
                            Or(OptionalGet(body, "invalidParams"), OptionalGet(body, "errors")),
                            type, detail)
  ELSE IF status = Num(401)
  THEN PiSpiAuthError(Or(Or(detail, title), Str("Authentication failed")),
                      status, Get(apiError, "statusText"))
  ELSE IF status = Num(403)
  THEN PiSpiError(Or(Or(detail, title), Str("Forbidden")),
                  status, Get(apiError, "statusText"), type, detail, instance)
  ELSE IF status = Num(404)
  THEN PiSpiNotFoundError(Or(Or(detail, title), Str("Resource not found")),
                          status, Get(apiError, "statusText"))
  ELSE IF status = Num(429)
  THEN PiSpiRateLimitError(Or(Or(detail, title), Str("Rate limit exceeded")),
                           status, Get(apiError, "statusText"), Undefined)
  ELSE PiSpiError(Or(Or(Or(detail, title), Get(apiError, "message")), Str("API error")),
                  status, Get(apiError, "statusText"), type, detail, instance)

\* Mutant of ApiErrorFor: the error's own message is not consulted for
\* the detail.
ApiErrorForWithoutMessage(apiError, status, body) ==
  ErrorForStatus(apiError, status, body,
                 OptionalGet(body, "type"),
                 Or(OptionalGet(body, "title"), Get(apiError, "statusText")),
                 OptionalGet(body, "detail"),
                 OptionalGet(body, "instance"))

\* Lines 165-174: the fields read from the error and its body.
ApiErrorFor(apiError, status, body) ==
  ErrorForStatus(apiError, status, body,
                 OptionalGet(body, "type"),
                 Or(OptionalGet(body, "title"), Get(apiError, "statusText")),
                 Or(OptionalGet(body, "detail"), Get(apiError, "message")),
                 OptionalGet(body, "instance"))

\* Mutant of handleApiError: a value that is not an API error is dropped.
handleApiErrorSwallowing(error) ==
  IF isApiError(error)
  THEN ThrowsValue(ApiErrorFor(error, Get(error, "status"), Get(error, "body")))
  ELSE ReturnsValue(Undefined)

\* Lines 156-242.
handleApiError(error) ==
  IF isApiError(error)
  THEN ThrowsValue(ApiErrorFor(error, Get(error, "status"), Get(error, "body")))
  ELSE ThrowsValue(error)

\* part_003 lines 11-17, once the operation has ended: its result is
\* returned; its failure goes to handleApiError, whose throw rejects the
\* promise; were handleApiError to return, the function would end without
\* a value.
execute(operation) ==
  IF operation.kind = "resolved" THEN [kind |-> "resolved", value |-> operation.value]
  ELSE IF handleApiError(operation.error).kind = "thrown"
  THEN [kind |-> "rejected", error |-> handleApiError(operation.error).value]
  ELSE [kind |-> "resolved", value |-> Undefined]

(***************************************************************************)
(* Values thrown at the mapper, and the operations execute wraps.          *)
(***************************************************************************)
Statuses == {Num(400), Num(401), Num(403), Num(404), Num(429), Num(500), Str("400"), Undefined}

StatusTexts == {Str("Not Found"), Str("")}

InvalidParams == Obj(<< <<"montant", Arr(<<Str("required")>>)>> >>)
OtherErrors == Obj(<< <<"statut", Arr(<<Str("unknown")>>)>> >>)

Bodies ==
  { Undefined, Null, Str("Service Unavailable"), Obj(<<>>),
    Obj(<< <<"detail", Str("missing")>> >>),
    Obj(<< <<"detail", Str("")>>, <<"title", Str("Problem")>> >>),
    Obj(<< <<"title", Str("")>>, <<"type", Str("about:blank")>>, <<"instance", Str("/comptes/1")>> >>),
    Obj(<< <<"detail", Str("missing")>>, <<"invalidParams", InvalidParams>>,
           <<"errors", OtherErrors>> >>),
    Obj(<< <<"title", Str("Problem")>>, <<"errors", OtherErrors>> >>),
    Obj(<< <<"detail", Null>>, <<"invalidParams", Null>> >>) }

\* The message of the thrown object: none (a plain object), or an Error's.
Messages == {Undefined, Str("Request failed"), Str("")}

\* An object with status, statusText and body, as the generated client
\* throws it (an Error, with a message) or as a plain object.
ApiErrorInput(status, statusText, body, message) ==
  IF message = Undefined
  THEN Object("Object", 1,
         << <<"status", status>>, <<"statusText", statusText>>, <<"body", body>> >>)
  ELSE Object("ApiError", 1,
         << <<"message", message>>, <<"status", status>>,
            <<"statusText", statusText>>, <<"body", body>> >>)

\* Thrown values that lack one of status, statusText and body.
OtherThrown ==
  { Undefined, Null, Str("boom"), Num(404), Num(0),
    Object("Error", 1, << <<"message", Str("network down")>> >>),
    Object("Object", 1, << <<"status", Num(404)>>, <<"statusText", Str("Not Found")>> >>),
    Object("Object", 1, << <<"status", Num(404)>>, <<"body", Obj(<<>>)>> >>),
    Object("Object", 1, << <<"statusText", Str("Not Found")>>, <<"body", Obj(<<>>)>> >>),
    [PiSpiNotFoundError(Str("missing"), Num(404), Str("Not Found")) EXCEPT !.ref = 1] }

InitErr ==
  /\ NormIdle /\ PatchIdle /\ QueryIdle /\ RetryIdle /\ FacadeIdle
  /\ \/ \E status \in Statuses, statusText \in StatusTexts, body \in Bodies,
           message \in Messages :
          hError = ApiErrorInput(status, statusText, body, message)
     \/ hError \in OtherThrown
  /\ hOutcome = [kind |-> "none"]
  /\ xOperation \in { [kind |-> "resolved", value |-> Str("ok")],
                      [kind |-> "rejected", error |-> hError],
                      [kind |-> "threw", error |-> hError] }
  /\ xPromise = [kind |-> "none"]

\* handleApiError(hError) is called.
HandleApiError ==
  /\ hOutcome.kind = "none"
  /\ hOutcome' = handleApiError(hError)
  /\ UNCHANGED <<hError, xOperation, xPromise>>
  /\ UNCHANGED <<normVars, patchVars, qbVars, retryVars, facadeVars>>

\* execute(operation) is called: it calls the operation and awaits it.
ExecuteCall ==
  /\ xPromise.kind = "none"
  /\ xPromise' = [kind |-> "pending"]
  /\ UNCHANGED <<hError, hOutcome, xOperation>>
  /\ UNCHANGED <<normVars, patchVars, qbVars, retryVars, facadeVars>>

\* The operation has ended: execute goes on after its await.
ExecuteSettle ==
  /\ xPromise.kind = "pending"
  /\ xPromise' = execute(xOperation)
  /\ UNCHANGED <<hError, hOutcome, xOperation>>
  /\ UNCHANGED <<normVars, patchVars, qbVars, retryVars, facadeVars>>

\* The object a handler receives: the one that was thrown, no new one.
Caught(error) == IF error.t = "obj" THEN [error EXCEPT !.ref = 1] ELSE error

\* A caller catches what handleApiError threw and hands it to
\* handleApiError again.
HandleAgain ==
  /\ hOutcome.kind = "thrown"
  /\ hError' = Caught(hOutcome.value)
  /\ hOutcome' = [kind |-> "none"]
  /\ UNCHANGED <<xOperation, xPromise>>
  /\ UNCHANGED <<normVars, patchVars, qbVars, retryVars, facadeVars>>

\* execute wrappers nest: the operation of an outer execute is a call of
\* execute whose promise was rejected; the outer one awaits it.
ExecuteNested ==
  /\ xPromise.kind = "rejected"
  /\ xOperation' = [kind |-> "rejected", error |-> Caught(xPromise.error)]
  /\ xPromise' = [kind |-> "pending"]
  /\ UNCHANGED <<hError, hOutcome>>
  /\ UNCHANGED <<normVars, patchVars, qbVars, retryVars, facadeVars>>

NextErr == HandleApiError \/ ExecuteCall \/ ExecuteSettle \/ HandleAgain \/ ExecuteNested

SpecErr == InitErr /\ [][NextErr]_vars

(***************************************************************************)
(* Properties of the error mapper.                                         *)
(***************************************************************************)
\* The names of the properties of a thrown value (none for a primitive).
PropertyNames(v) ==
  IF v.t = "obj" THEN {v.props[i][1] : i \in 1..Len(v.props)} ELSE {}

\* The thrown value is an object with status, statusText and body.
ApiShaped(v) == {"status", "statusText", "body"} \subseteq PropertyNames(v)

\* The class the status is mapped to.
ExpectedClass(status) ==
  CASE status = Num(400) -> "PiSpiValidationError"
    [] status = Num(401) -> "PiSpiAuthError"
    [] status = Num(404) -> "PiSpiNotFoundError"
    [] status = Num(429) -> "PiSpiRateLimitError"
    [] OTHER -> "PiSpiError"

\* handleApiError has been called with hError.
Handled == hOutcome.kind # "none"

\* C12: for an input with status, statusText and body, handleApiError
\* throws a new error of the class of the status (400 validation, 401
\* authentication, 404 not found, 429 rate limit, 403 and every other status
\* the plain PiSpiError), whose statusCode and statusText are the input's
\* status and statusText.
C12_ClassificationByStatus ==
  (Handled /\ ApiShaped(hError)) =>
    /\ hOutcome.kind = "thrown"
    /\ hOutcome.value.t = "obj"
    /\ hOutcome.value.ref = 0
    /\ hOutcome.value.class = ExpectedClass(Get(hError, "status"))
    /\ Get(hOutcome.value, "name") = Str(ExpectedClass(Get(hError, "status")))
    /\ Get(hOutcome.value, "statusCode") = Get(hError, "status")
    /\ Get(hOutcome.value, "statusText") = Get(hError, "statusText")

\* A 429 has been mapped to a rate-limit error.
C12_Witness ==
  /\ Handled /\ ApiShaped(hError)
  /\ Get(hError, "status") = Num(429)
  /\ hOutcome.value.class = "PiSpiRateLimitError"
  /\ Get(hOutcome.value, "statusCode") = Num(429)

\* The promise of execute is settled.
Settled == xPromise.kind \in {"resolved", "rejected"}

\* C13: handleApiError always ends by throwing; called with a value
\* that is not an object with status, statusText and body, it throws that
\* very value; so the promise of execute resolves only with the result of
\* an operation that succeeded, and is rejected when the operation failed,
\* with the value handleApiError throws.
C13_MapperNeverSwallows ==
  /\ Handled => hOutcome.kind = "thrown"
  /\ (Handled /\ ~ApiShaped(hError)) => (hOutcome.value = hError)
  /\ Settled =>
       /\ (xPromise.kind = "resolved") =>
            (xOperation.kind = "resolved" /\ xPromise.value = xOperation.value)
       /\ (xOperation.kind # "resolved") =>
            /\ xPromise.kind = "rejected"
            /\ ~ApiShaped(xOperation.error) => (xPromise.error = xOperation.error)
            /\ ApiShaped(xOperation.error) =>
                 (xPromise.error.class = ExpectedClass(Get(xOperation.error, "status")))

\* An operation failed with a plain Error; execute rejected with that Error,
\* and handleApiError called with it threw it.
C13_Witness ==
  /\ hError = Object("Error", 1, << <<"message", Str("network down")>> >>)
  /\ Handled /\ hOutcome.value = hError
  /\ xOperation.kind = "rejected"
  /\ xPromise.kind = "rejected" /\ xPromise.error = hError

\* The property of the body, when the body is an object that has it.
BodyField(error, key) ==
  IF HasProps(Get(error, "body")) /\ HasKey(Get(error, "body").props, key)
  THEN Get(Get(error, "body"), key)
  ELSE Undefined

\* A value that is present and not empty.
NonEmpty(v) == v \notin {Undefined, Null, Str("")}

DefaultMessage(status) ==
  IF status = Num(400) THEN Str("Validation error")
  ELSE IF status = Num(401) THEN Str("Authentication failed")
  ELSE IF status = Num(403) THEN Str("Forbidden")
  ELSE IF status = Num(404) THEN Str("Resource not found")
  ELSE IF status = Num(429) THEN Str("Rate limit exceeded")
  ELSE Str("API error")

\* The message the selection order gives for an input.
ExpectedMessage(error) ==
  IF NonEmpty(BodyField(error, "detail")) THEN BodyField(error, "detail")
  ELSE IF In("message", error) /\ NonEmpty(Get(error, "message")) THEN Get(error, "message")
  ELSE IF NonEmpty(BodyField(error, "title")) THEN BodyField(error, "title")
  ELSE IF NonEmpty(Get(error, "statusText")) THEN Get(error, "statusText")
  ELSE DefaultMessage(Get(error, "status"))

ExpectedErrors(error) ==
  IF NonEmpty(BodyField(error, "invalidParams")) THEN BodyField(error, "invalidParams")
  ELSE BodyField(error, "errors")

\* C20: for an input with status, statusText and body, the message of
\* the thrown error is body.detail when present and not empty, else the
\* input's own message, else body.title, else statusText, else the default
\* text of the status; for status 400 the errors field is body.invalidParams,
\* else body.errors.
C20_MessageSelection ==
  (Handled /\ ApiShaped(hError)) =>
    /\ Get(hOutcome.value, "message") = ExpectedMessage(hError)
    /\ (Get(hError, "status") = Num(400)) =>
         (Get(hOutcome.value, "errors") = ExpectedErrors(hError))

\* {status: 404, statusText: 'Not Found', body: {detail: 'missing'}} has
\* been mapped to a PiSpiNotFoundError with message 'missing'.
C20_Witness ==
  /\ hError = ApiErrorInput(Num(404), Str("Not Found"),
                            Obj(<< <<"detail", Str("missing")>> >>), Undefined)
  /\ Handled
  /\ hOutcome.value.class = "PiSpiNotFoundError"
  /\ Get(hOutcome.value, "message") = Str("missing")

(***************************************************************************)
(* Properties of the remise rules of the Patcher.                          *)
(***************************************************************************)
\* Token k is `remise` or `remise?`, then `:`, then nothing but whitespace
\* up to a `;`.
EmptyRemiseField(c, k) ==
  /\ c[k] = "remise"
  /\ \E colon \in {k + 1, k + 2} :
       /\ colon <= Len(c) /\ c[colon] = ":"
       /\ (colon = k + 2) => (c[k + 1] = "?")
       /\ \E j \in (colon + 1)..Len(c) :
            /\ c[j] = ";"
            /\ \A n \in (colon + 1)..(j - 1) : c[n] \in {" ", "\n"}

\* The empty remise fields of a text that stand right after the whitespace w.
RemiseFieldsAfter(c, w) == {k \in 2..Len(c) : c[k - 1] = w /\ EmptyRemiseField(c, k)}

\* `remise?: <table['remise']>`
OptionalRemise == <<"remise", "?", ":", " ", emptyTypeFixes.remise>>

\* 1 when the text has an empty remise field after whitespace, else 0.
RemiseFieldFix(c) ==
  IF \E w \in {" ", "\n"} : RemiseFieldsAfter(c, w) # {} THEN 1 ELSE 0

\* 1 when `remise: ;` stands in the text where no whitespace precedes it.
BareLiteralFix(c) ==
  IF \E k \in 1..(Len(c) - 3) :
       /\ SubSeq(c, k, k + 3) = <<"remise", ":", " ", ";">>
       /\ (k = 1 \/ c[k - 1] \notin {" ", "\n"})
  THEN 1 ELSE 0

RECURSIVE FixesCounted(_)
\* Over the files S: the fixes the declaration loop counts, one for the
\* remise fields after whitespace and one for `remise: ;` elsewhere.
FixesCounted(S) ==
  IF S = {} THEN 0
  ELSE LET i == CHOOSE j \in S : TRUE
       IN EmptyTypeLoop(ContentAtStart(i), 0, 0, FALSE).count
            + RemiseFieldFix(ContentAtStart(i)) + BareLiteralFix(ContentAtStart(i))
            + FixesCounted(S \ {i})

\* C14: in a file the repair has read, no empty `remise` or `remise?`
\* field stands after whitespace any more; each one reads
\* `remise?: <table['remise']>` after the whitespace it stood after; and the
\* fields of a file add one fix to the count, however many there were.
C14_InlineRemiseRewritten ==
  (FixDone /\ pModels.t = "listing") =>
    /\ \A i \in ReadEntries : \A w \in {" ", "\n"} :
         /\ RemiseFieldsAfter(ContentNow(i), w) = {}
         /\ Occurrences(ContentNow(i), <<w>> \o OptionalRemise)
              = Occurrences(ContentAtStart(i), <<w>> \o OptionalRemise)
                  + Cardinality(RemiseFieldsAfter(ContentAtStart(i), w))
    /\ pFixed = FixesCounted(ReadEntries)

\* A file held an optional and a required empty remise field, both after a
\* space; both are optional with the table body now, and one fix is counted.
C14_Witness ==
  /\ FixDone /\ pModels.t = "listing" /\ pRun = 1
  /\ pFixed = 1
  /\ \E i \in ReadEntries :
       /\ ContentAtStart(i) = <<" ", " ", "remise", "?", ":", " ", ";", "\n",
                                " ", "remise", ":", " ", ";", "\n">>
       /\ ContentNow(i) = <<" ", " ">> \o OptionalRemise \o <<"\n", " ">>
                            \o OptionalRemise \o <<"\n">>

\* `remise: ;` and `remise: <table['remise']>`
RemiseLiteral == <<"remise", ":", " ", ";">>
RequiredRemise == <<"remise", ":", " ", emptyTypeFixes.remise>>

\* The required empty remise fields (`remise:`, whitespace or none, `;`) of
\* a text that no whitespace precedes.
BareRequiredFields(c) ==
  {k \in 1..Len(c) :
     /\ EmptyRemiseField(c, k) /\ c[k + 1] = ":"
     /\ (k = 1 \/ c[k - 1] \notin {" ", "\n"})}

RECURSIVE FixesClaimed(_)
\* Over the files S: the fixes the declaration loop counts, one for the
\* remise fields after whitespace and one for `remise: ;` wherever it stands.
FixesClaimed(S) ==
  IF S = {} THEN 0
  ELSE LET i == CHOOSE j \in S : TRUE
       IN EmptyTypeLoop(ContentAtStart(i), 0, 0, FALSE).count
            + RemiseFieldFix(ContentAtStart(i))
            + (IF Occurrences(ContentAtStart(i), RemiseLiteral) > 0 THEN 1 ELSE 0)
            + FixesClaimed(S \ {i})

\* C15 as stated: every `remise: ;` of a file the repair has read reads
\* `remise: <table['remise']>` after the run, whatever rule 2 did, and a file
\* counts one fix for each declaration fixed, one if rule 2 matched and one
\* if `remise: ;` occurred in it.
C15_LiteralFixedIndependently ==
  (FixDone /\ pModels.t = "listing") =>
    /\ \A i \in ReadEntries :
         /\ Occurrences(ContentNow(i), RemiseLiteral) = 0
         /\ Occurrences(ContentNow(i), RequiredRemise)
              = Occurrences(ContentAtStart(i), RequiredRemise)
                  + Occurrences(ContentAtStart(i), RemiseLiteral)
    /\ pFixed = FixesClaimed(ReadEntries)

\* C15: rule 3 works on what rule 2 left.  No `remise: ;` is left in a
\* file the repair has read; where one stood that no whitespace preceded,
\* every required empty remise field that no whitespace preceded reads
\* `remise: <table['remise']>` and one more fix is counted for the file;
\* where none stood, the required form is written nowhere; a `remise: ;`
\* after whitespace is rule 2's and counts no second fix.  The count of a
\* file is the fixes of the declaration loop, plus one if rule 2 matched,
\* plus one if a `remise: ;` stood where no whitespace preceded it.
C15_LiteralFixedAfterRule2 ==
  (FixDone /\ pModels.t = "listing") =>
    /\ \A i \in ReadEntries :
         /\ Occurrences(ContentNow(i), RemiseLiteral) = 0
         /\ IF BareLiteralFix(ContentAtStart(i)) = 1
            THEN /\ BareRequiredFields(ContentNow(i)) = {}
                 /\ Occurrences(ContentNow(i), RequiredRemise)
                      = Occurrences(ContentAtStart(i), RequiredRemise)
                          + Cardinality(BareRequiredFields(ContentAtStart(i)))
            ELSE /\ Occurrences(ContentNow(i), RequiredRemise)
                      = Occurrences(ContentAtStart(i), RequiredRemise)
                 /\ Cardinality(BareRequiredFields(ContentNow(i)))
                      = Cardinality(BareRequiredFields(ContentAtStart(i)))
    /\ pFixed = FixesCounted(ReadEntries)

\* A file held `remise: ;` once after `{` and once after a space: the first
\* has the required form, the second the optional one, and two fixes are
\* counted.
C15_Witness ==
  /\ FixDone /\ pModels.t = "listing" /\ pRun = 1
  /\ pFixed = 2
  /\ \E i \in ReadEntries :
       /\ ContentAtStart(i) = <<"{", "remise", ":", " ", ";", "\n",
                                " ", "remise", ":", " ", ";", "\n">>
       /\ ContentNow(i) = <<"{">> \o RequiredRemise \o <<"\n", " ">>
                            \o OptionalRemise \o <<"\n">>

(***************************************************************************)
(* Properties of the configuration rewrite.                                *)
(***************************************************************************)
\* The first place at which `KEY: '<value>'` stands in the text (the index
\* of the value), 0 if there is none.
FirstAssignment(c, key) ==
  LET found == {i \in 1..(Len(c) - 3) :
                  c[i] = key /\ c[i + 1] = "'" /\ c[i + 2] # "'" /\ c[i + 3] = "'"}
  IN IF found = {} THEN 0 ELSE MinOf(found) + 2

\* The text with the value of the first assignment of the key set, and
\* nothing else touched.
WithValue(c, key, value) ==
  IF FirstAssignment(c, key) = 0 THEN c
  ELSE [c EXCEPT ![FirstAssignment(c, key)] = value]

\* C16: once the configuration rewrite has run on an existing file, the
\* first `BASE: '...'` holds the sandbox URL, the first `VERSION: '...'`
\* holds '1.0.0', and every other piece of the text, another quoted
\* assignment of the same line included, is what it was; a text without a
\* pattern is unchanged; and a second run leaves the file as the first made
\* it.
C16_ConfigRewrite ==
  (pc # "config" /\ pStart.config # Missing) =>
    /\ pConfig.t = "text"
    /\ pConfig.text = WithValue(WithValue(pStart.config.text, "BASE: ", SandboxBase),
                                "VERSION: ", TargetVersion)
    /\ ~("warn-config" \in {pLog[k] : k \in 1..Len(pLog)})
    /\ (pRun = 2) => (pConfig = pStart.config)

(***************************************************************************)
(* Properties of the declaration rule of the Patcher.                      *)
(***************************************************************************)
\* The declarations of a text that detection rule 1 matches (any whitespace
\* before the semicolon) and whose name is a key of the table.
KnownEmptyDeclarations(c) == {i \in EmptyDeclarations(c) : c[i + 1] \in KnownNames}

RECURSIVE BodiesGiven(_, _)
\* How many more declarations of the names S carry the table body in the
\* file at index i than at the start of the run.
BodiesGiven(i, S) ==
  IF S = {} THEN 0
  ELSE LET name == CHOOSE n \in S : TRUE
       IN Occurrences(ContentNow(i), ExpectedDeclaration(name))
            - Occurrences(ContentAtStart(i), ExpectedDeclaration(name))
            + BodiesGiven(i, S \ {name})

\* C19: in a file the repair has read, no declaration
\* `export type <Name> = `, whitespace or none, `;` is left whose <Name> is a
\* key of the table, and each such declaration the file had carries the
\* table body.
C19_NoKnownEmptyDeclarationLeft ==
  (FixDone /\ pModels.t = "listing") =>
    \A i \in ReadEntries :
      /\ KnownEmptyDeclarations(ContentNow(i)) = {}
      /\ BodiesGiven(i, KnownNames) = Cardinality(KnownEmptyDeclarations(ContentAtStart(i)))

(***************************************************************************)
(* More properties of the Normalizer.                                      *)
(***************************************************************************)
\* A value that is there and is no object to typeof: a string or a number.
IsPrimitive(v) == v.t \in {"str", "num"}

\* An object or array without a non-empty tags array.
LacksTags(v) ==
  /\ v.t \in {"obj", "arr"}
  /\ \/ ~HasKey(v.props, "tags")
     \/ Get(v, "tags").t # "arr"
     \/ Get(v, "tags").items = <<>>

\* The number of HTTP-method keys of a document whose value is an object or
\* array without a non-empty tags array.
UntaggedOperations(doc) ==
  Cardinality({ik \in (1..Len(PathEntries(doc))) \X (1..(MaxKeys + 1)) :
    LET item == PathEntries(doc)[ik[1]][2] IN
      /\ HasProps(item)
      /\ ik[2] <= Len(item.props)
      /\ item.props[ik[2]][1] \in MethodKeysUsed
      /\ LacksTags(item.props[ik[2]][2])})

OperationsIsolated ==
  RanOk =>
    AllOps(nPrev.disk, LAMBDA path, key, v :
      (v.t = "obj") =>
        /\ ~LacksTags(OpAt(nDisk, path, key))
        /\ ~Falsy(Get(OpAt(nDisk, path, key), "operationId")))

\* Every file of the models directory whose name ends with `.ts` has been
\* read and holds what the three rules make of its content, whatever became
\* of the other entries.
FilesIsolated ==
  (FixDone /\ pModels.t = "listing") =>
    \A i \in 1..Len(pStart.models.entries) :
      LET f == pStart.models.entries[i] IN
      (f.kind = "file" /\ EndsWithTs(f.name)) =>
        /\ f.name \in pRead
        /\ ContentNow(i) = FixFile(f.content).content

\* C18: a failure confined to one item leaves the other items
\* processed: a malformed operation entry does not keep the Normalizer from
\* fixing the other operations and paths, and a models entry that cannot be
\* read does not keep the repair from scanning and repairing the other
\* `.ts` files of the directory.
C18_PerItemFailureIsolation == OperationsIsolated /\ FilesIsolated

(***************************************************************************)
(* src/utils/index.ts: sleep and retryWithBackoff.  The async function     *)
(* runs from one await to the next in one step; fn and the timer of sleep  *)
(* settle in steps of their own.                                           *)
(***************************************************************************)
DefaultMaxRetries == 3
DefaultInitialDelay == 1000

\* A parameter with a default value: the default stands in for undefined.
WithDefault(arg, default) == IF arg = Undefined THEN default ELSE arg.n

\* error instanceof Error
InstanceofError(error) ==
  /\ error.t = "obj" /\ "class" \in DOMAIN error
  /\ error.class \in {"Error", "ApiError", "PiSpiError", "PiSpiValidationError",
                      "PiSpiAuthError", "PiSpiNotFoundError", "PiSpiRateLimitError"}

\* String(error) of a thrown value.
StringOfThrown(error) == IF error.t = "obj" THEN "[object Object]" ELSE JsString(error)

\* new Error(message)
NewError(message) == Object("Error", 0, << <<"message", Str(message)>> >>)

\* Line 121.
AsError(error) == IF InstanceofError(error) THEN error ELSE NewError(StringOfThrown(error))

\* Line 123.
BackoffDelay(initialDelay, i) == initialDelay * 2^i

\* Mutant of WillRetry: a wait follows every failed invocation.
WillRetryAlways(i, maxRetries) == TRUE

\* Line 122.
WillRetry(i, maxRetries) == i < maxRetries - 1

\* Mutant of LoopGoesOn: the loop makes one more round.
LoopGoesOnOnceMore(i, maxRetries) == i <= maxRetries

\* Line 117: the loop condition.
LoopGoesOn(i, maxRetries) == i < maxRetries

\* Lines 117-119 and 129 with the loop variable at i: fn is invoked and
\* awaited, or the loop is over and the call rejects.
Continue(i, maxRetries) ==
  /\ rI' = i
  /\ IF LoopGoesOn(i, maxRetries)
     THEN rPc' = "awaitFn" /\ rPromise' = [kind |-> "pending"]
     ELSE /\ rPc' = "settled"
          /\ rPromise' = [kind |-> "rejected",
                          error |-> IF rLastError' \in {Undefined, Null}
                                    THEN NewError("Retry failed with unknown error")
                                    ELSE rLastError']

\* What fn's promises resolve with and reject with.
FnValues == {Str("ok")}
FnErrors ==
  { Object("Error", 1, << <<"message", Str("network down")>> >>),
    Object("Object", 1, << <<"status", Num(503)>> >>),
    Str("boom"), Undefined }

MaxRetriesInputs == {Undefined} \cup {Num(n) : n \in 0..MaxRetriesBound}
InitialDelayInputs == {Undefined, Num(0), Num(250)}

InitRetry ==
  /\ NormIdle /\ PatchIdle /\ QueryIdle /\ ErrIdle /\ FacadeIdle
  /\ rArgs \in {<<m, d>> : m \in MaxRetriesInputs, d \in InitialDelayInputs}
  /\ rMax = 0 /\ rDelay = 0 /\ rI = 0 /\ rPc = "idle"
  /\ rLastError = Undefined /\ rCalls = <<>> /\ rWaits = <<>>
  /\ rPromise = [kind |-> "none"]

\* retryWithBackoff(fn, maxRetries, initialDelay) is called (lines 110-119).
RetryCall ==
  /\ rPc = "idle"
  /\ rMax' = WithDefault(rArgs[1], DefaultMaxRetries)
  /\ rDelay' = WithDefault(rArgs[2], DefaultInitialDelay)
  /\ rLastError' = Undefined
  /\ Continue(0, rMax')
  /\ UNCHANGED <<rArgs, rCalls, rWaits>>
  /\ UNCHANGED <<normVars, patchVars, qbVars, errVars, facadeVars>>

\* The promise of fn resolves: line 119 returns its value.
FnResolves ==
  /\ rPc = "awaitFn"
  /\ \E value \in FnValues :
       /\ rCalls' = Append(rCalls, [kind |-> "resolved", value |-> value])
       /\ rPromise' = [kind |-> "resolved", value |-> value]
  /\ rPc' = "settled"
  /\ UNCHANGED <<rArgs, rMax, rDelay, rI, rLastError, rWaits>>
  /\ UNCHANGED <<normVars, patchVars, qbVars, errVars, facadeVars>>

\* fn throws or its promise rejects: lines 120-126, then the next round.
FnFails ==
  /\ rPc = "awaitFn"
  /\ \E error \in FnErrors :
       /\ rCalls' = Append(rCalls, [kind |-> "rejected", error |-> error])
       /\ rLastError' = AsError(error)
  /\ IF WillRetry(rI, rMax)
     THEN /\ rWaits' = Append(rWaits, BackoffDelay(rDelay, rI))
          /\ rPc' = "sleeping"
          /\ UNCHANGED <<rI, rPromise>>
     ELSE /\ Continue(rI + 1, rMax)
          /\ UNCHANGED rWaits
  /\ UNCHANGED <<rArgs, rMax, rDelay>>
  /\ UNCHANGED <<normVars, patchVars, qbVars, errVars, facadeVars>>

\* The timer of sleep fires: the loop goes into its next round.
TimerFires ==
  /\ rPc = "sleeping"
  /\ Continue(rI + 1, rMax)
  /\ UNCHANGED <<rArgs, rMax, rDelay, rLastError, rCalls, rWaits>>
  /\ UNCHANGED <<normVars, patchVars, qbVars, errVars, facadeVars>>

NextRetry == RetryCall \/ FnResolves \/ FnFails \/ TimerFires

SpecRetry == InitRetry /\ [][NextRetry]_vars

\* Every invocation of fn settles, and a timer that was set fires.
SpecRetryFair == SpecRetry /\ WF_vars(FnResolves \/ FnFails) /\ WF_vars(TimerFires)

(***************************************************************************)
(* Properties of retryWithBackoff.                                         *)
(***************************************************************************)
\* The number of invocations of fn so far.
Invocations == Len(rCalls) + (IF rPc = "awaitFn" THEN 1 ELSE 0)

RetrySettled == rPromise.kind \in {"resolved", "rejected"}

\* What the call rejects with when the last invocation failed with error:
\* an Error as it is, any other value as an Error of its string form.
RejectionFor(error) ==
  CASE error = Str("boom") -> Object("Error", 0, << <<"message", Str("boom")>> >>)
    [] error = Undefined -> Object("Error", 0, << <<"message", Str("undefined")>> >>)
    [] error = Object("Object", 1, << <<"status", Num(503)>> >>) ->
         Object("Error", 0, << <<"message", Str("[object Object]")>> >>)
    [] OTHER -> error

\* The attempts of a call made with maxRetries >= 1.
AttemptProtocol ==
  (rPc # "idle" /\ rMax >= 1) =>
    /\ Invocations <= rMax
    /\ \A k \in 1..(Len(rCalls) - 1) : rCalls[k].kind = "rejected"
    /\ (rCalls # <<>> /\ rCalls[Len(rCalls)].kind = "resolved") =>
         /\ rPc = "settled"
         /\ rPromise = [kind |-> "resolved", value |-> rCalls[Len(rCalls)].value]
    /\ (rPromise.kind = "resolved") =>
         (rCalls # <<>> /\ rCalls[Len(rCalls)].kind = "resolved")
    /\ (rPromise.kind = "rejected") =>
         /\ Len(rCalls) = rMax
         /\ rCalls[rMax].kind = "rejected"
         /\ rPromise.error = RejectionFor(rCalls[rMax].error)
    /\ (Len(rCalls) = rMax /\ rCalls[rMax].kind = "rejected") => (rPromise.kind = "rejected")

\* C21: with maxRetries >= 1, fn is invoked at most maxRetries times;
\* the call resolves with the result of the first invocation that succeeds
\* and fn is invoked no more; when maxRetries invocations have failed the
\* call rejects with the error of the last one, as an Error of its string
\* form when it is no Error; and when every invocation of fn settles, a call
\* that was made settles.
C21_AttemptProtocol ==
  /\ []AttemptProtocol
  /\ (rPc # "idle") ~> RetrySettled

\* Three invocations failed, the last with the string 'boom': the call has
\* rejected with an Error whose message is 'boom'.
C21_Witness ==
  /\ rMax = 3 /\ Len(rCalls) = 3 /\ rPc = "settled"
  /\ rCalls[1] = [kind |-> "rejected",
                  error |-> Object("Error", 1, << <<"message", Str("network down")>> >>)]
  /\ rCalls[3] = [kind |-> "rejected", error |-> Str("boom")]
  /\ rPromise = [kind |-> "rejected",
                 error |-> Object("Error", 0, << <<"message", Str("boom")>> >>)]

\* The number of invocations of fn that have failed.
FailedInvocations == Cardinality({k \in 1..Len(rCalls) : rCalls[k].kind = "rejected"})

RECURSIVE Doubled(_, _)
\* d doubled n times.
Doubled(d, n) == IF n = 0 THEN d ELSE 2 * Doubled(d, n - 1)

\* C22: the waits of a call are initialDelay, 2 * initialDelay,
\* 4 * initialDelay, ... in that order, one after each failed invocation
\* that another invocation follows: none after a success and none after the
\* failure of the last of the maxRetries invocations.
C22_DelaySchedule ==
  (rPc # "idle") =>
    /\ \A j \in 1..Len(rWaits) : rWaits[j] = Doubled(rDelay, j - 1)
    /\ Len(rWaits) = IF FailedInvocations < rMax THEN FailedInvocations
                     ELSE IF rMax >= 1 THEN rMax - 1 ELSE 0
    /\ (rPc = "sleeping") => (Len(rWaits) = Len(rCalls) /\ Len(rCalls) < rMax)
    /\ (rPromise.kind = "resolved") => (Len(rWaits) = Len(rCalls) - 1)

\* With initialDelay 250, two invocations failed and the third succeeded:
\* the call waited 250 and then 500 milliseconds.
C22_Witness ==
  /\ rDelay = 250 /\ Len(rCalls) = 3
  /\ rPromise = [kind |-> "resolved", value |-> Str("ok")]
  /\ rWaits = <<250, 500>>

(***************************************************************************)
(* Properties of build(), with a caller that changes what it returned.     *)
(***************************************************************************)
\* C23: build() and buildQueryString() leave the parameters, the
\* filters and the sort of the builder as they were; a build() right after
\* a build() returns an equal mapping; and an assignment into a returned
\* mapping changes nothing of the builder, so that the next build() returns
\* what the mapping was before the assignment.
C23_BuildIsPure ==
  [][/\ (Build \/ BuildQueryString \/ MutateReturned)
          => UNCHANGED <<params, filters, sortField, sortOrder>>
     /\ (Build /\ qRet.kind = "returned") => (qRet'.value = qRet.value)
     /\ (Build /\ qRet.kind = "mutated") => (qRet'.value = qRet.built)]_vars

\* The caller has changed the page of a mapping build() returned for a
\* builder with filters, whose own page is still what page() set.
C23_Witness ==
  /\ qRet.kind = "mutated"
  /\ "page" \in DOMAIN qRet.built /\ "page" \in DOMAIN params
  /\ qRet.built["page"] = Str("1") /\ qRet.value["page"] = Str("9")
  /\ params["page"] = Str("1")
  /\ filters # <<>>

\* C28: a `size` entry of the mapping build() returns is a number from
\* 1 to 100, whatever calls were made on the builder.
C28_BuiltSizeWithinLimit ==
  (Built /\ "size" \in DOMAIN qRet.value) =>
    /\ qRet.value["size"].t = "num"
    /\ qRet.value["size"].n >= 1
    /\ qRet.value["size"].n <= 100

\* The keys of a mapping that a filter on the field is written under: the
\* field with an operator in brackets, and the field itself unless a
\* parameter or the sort stands under it.
FilterKeysOf(result, field) ==
  {k \in DOMAIN result :
     \/ \E operator \in {"ne", "gt", "gte", "lt", "lte", "in", "contains", "exists"} :
          k = field \o "[" \o operator \o "]"
     \/ k = field /\ k \notin DOMAIN params /\ ~(SortSet /\ k = "sort")}

\* C27: the builder holds one filter for each field filter or a
\* shorthand was called on since the last reset, with the operator and value
\* of the latest such call; and the mapping build() returns holds at most
\* one filter entry for a field, the one of that call: a filter set earlier
\* on the field under another operator is not in it.
C27_OneFilterPerField ==
  /\ {filters[i].field : i \in 1..Len(filters)} = DOMAIN qLatest
  /\ \A i, j \in 1..Len(filters) : (filters[i].field = filters[j].field) => (i = j)
  /\ \A i \in 1..Len(filters) : filters[i].filter = qLatest[filters[i].field]
  /\ Built =>
       \A field \in DOMAIN qLatest :
         /\ FilterKeysOf(qRet.value, field)
              \subseteq {ExpectedKey([field |-> field, filter |-> qLatest[field]])}
         /\ \A k \in FilterKeysOf(qRet.value, field) :
              qRet.value[k] = Str(ExpectedText(qLatest[field].value))

\* gte and then lte were called on montant: build() returns montant[lte]
\* and no montant[gte].
C27_Witness ==
  /\ Built
  /\ "montant" \in DOMAIN qLatest
  /\ qLatest["montant"] = [operator |-> Str("lte"), value |-> Num(10000)]
  /\ "montant[lte]" \in DOMAIN qRet.value
  /\ "montant[gte]" \notin DOMAIN qRet.value
  /\ Len(filters) = 2 /\ filters[1].field = "montant"

\* The value is an instance of PiSpiError: of the class or of a subclass.
InstanceofPiSpiError(v) ==
  /\ v.t = "obj"
  /\ v.class \in {"PiSpiError", "PiSpiValidationError", "PiSpiAuthError",
                  "PiSpiNotFoundError", "PiSpiRateLimitError"}

\* C29: handleApiError called with a PiSpiError or an instance of a
\* subclass, as it throws them itself, throws that very object again: the
\* same class, message, statusCode and statusText, no new error; and an
\* execute around an operation rejected with such an error is rejected with
\* that very object.
C29_MapperIdempotent ==
  /\ (Handled /\ InstanceofPiSpiError(hError)) => (hOutcome = ThrowsValue(hError))
  /\ (Settled /\ xOperation.kind # "resolved" /\ InstanceofPiSpiError(xOperation.error)) =>
       (xPromise = [kind |-> "rejected", error |-> xOperation.error])

\* The validation error handleApiError made of a 400 was handed to it again
\* and came back.
C29_Witness ==
  /\ Handled
  /\ hError.t = "obj" /\ hError.ref = 1
  /\ hError.class = "PiSpiValidationError"
  /\ Get(hError, "statusCode") = Num(400)
  /\ hOutcome = ThrowsValue(hError)
  /\ Settled /\ xOperation.kind = "rejected"
  /\ InstanceofPiSpiError(xOperation.error) /\ xOperation.error.ref = 1
  /\ xPromise = [kind |-> "rejected", error |-> xOperation.error]

\* The script makes an operationId for the value: an object without a
\* truthy operationId.
Synthesized(v) == v.t = "obj" /\ Falsy(Get(v, "operationId"))

\* C30: in the file a run leaves, two operations under different
\* paths or different method keys, of which one got its operationId from the
\* script, have different operationIds: be the other one's made by the script
\* as well or the one it had in the file the run read.
C30_SynthesizedIdsUnique ==
  RanOk =>
    AllOps(nPrev.disk, LAMBDA path, key, v :
      Synthesized(v) =>
        AllOps(nPrev.disk, LAMBDA otherPath, otherKey, other :
          (other.t = "obj" /\ <<otherPath, otherKey>> # <<path, key>>) =>
            Get(OpAt(nDisk, path, key), "operationId")
              # Get(OpAt(nDisk, otherPath, otherKey), "operationId")))

(***************************************************************************)
(* src/sdk.ts: the PiSpiSDK facade.  OpenAPI is a variable of the module,  *)
(* one for all the instances.                                              *)
(***************************************************************************)
MaxInstances == 2

SandboxBaseUrl == Str("https://sandbox.api.pi-bceao.com/piz/v1")

\* `Bearer ${token}`
Bearer(token) == Str("Bearer " \o JsString(token))

\* { ...headers }: the own properties of an object, none of undefined or null.
Spread(headers) == IF HasProps(headers) THEN headers.props ELSE <<>>

\* Headers in which the entries of the caller come last: not what the
\* constructor writes.
AuthorizedHeadersCallerLast(headers, token) ==
  Obj(IF HasKey(Spread(headers), "Authorization")
      THEN Spread(headers)
      ELSE SetProp(Spread(headers), "Authorization", Bearer(token)))

\* { ...headers, Authorization: `Bearer ${token}` }
AuthorizedHeaders(headers, token) ==
  Obj(SetProp(Spread(headers), "Authorization", Bearer(token)))

\* The constructor: both branches of its try assign the same object.
Constructor(config) ==
  Obj(<< <<"BASE", Or(Get(config, "baseUrl"), SandboxBaseUrl)>>,
         <<"TOKEN", Get(config, "accessToken")>>,
         <<"HEADERS", AuthorizedHeaders(Get(config, "headers"),
                                        Get(config, "accessToken"))>> >>)

\* setAccessToken(token): OpenAPI after the call.
setAccessToken(openApi, token) ==
  IF Falsy(openApi) THEN openApi
  ELSE Set(Set(openApi, "TOKEN", token),
           "HEADERS", AuthorizedHeaders(Get(openApi, "HEADERS"), token))

\* getBaseUrl(): OpenAPI?.BASE || the sandbox URL.
getBaseUrl(openApi) == Or(OptionalGet(openApi, "BASE"), SandboxBaseUrl)

\* The configurations an SDK is constructed with.
BaseUrls == {Undefined, Str(""), Str("https://api.pi-bceao.com/piz/v1")}
AccessTokens == {Undefined, Str("t1")}
OwnHeaders ==
  { Undefined,
    Obj(<< <<"X-Request-Id", Str("r1")>> >>),
    Obj(<< <<"Authorization", Str("Basic abc")>>, <<"X-Request-Id", Str("r1")>> >>) }

Config(baseUrl, accessToken, headers) ==
  Obj(SelectSeq(<< <<"baseUrl", baseUrl>>, <<"accessToken", accessToken>>,
                   <<"headers", headers>> >>,
                LAMBDA e : e[2] # Undefined))

Configs ==
  {Config(b, a, h) : b \in BaseUrls, a \in AccessTokens, h \in OwnHeaders}

RefreshedTokens == {Str("t2"), Str("")}

InitSdk ==
  /\ NormIdle /\ PatchIdle /\ QueryIdle /\ ErrIdle /\ RetryIdle
  /\ FacadeIdle

\* new PiSpiSDK(config)
Construct ==
  /\ Len(sdkInstances) < MaxInstances
  /\ \E config \in Configs :
       /\ OpenAPI' = Constructor(config)
       /\ sdkInstances' = Append(sdkInstances,
                                 [config |-> config, token |-> Get(config, "accessToken")])
       /\ sdkLast' = [op |-> "constructor", instance |-> Len(sdkInstances) + 1]
  /\ sdkBefore' = OpenAPI
  /\ UNCHANGED <<svcCall, svcPromise>>
  /\ UNCHANGED <<normVars, patchVars, qbVars, errVars, retryVars>>

\* sdk.setAccessToken(token) on a constructed instance.
SetAccessToken ==
  /\ \E i \in 1..Len(sdkInstances), token \in RefreshedTokens :
       /\ OpenAPI' = setAccessToken(OpenAPI, token)
       /\ sdkInstances' = [sdkInstances EXCEPT ![i].token = token]
       /\ sdkLast' = [op |-> "setAccessToken", instance |-> i, token |-> token]
  /\ sdkBefore' = OpenAPI
  /\ UNCHANGED <<svcCall, svcPromise>>
  /\ UNCHANGED <<normVars, patchVars, qbVars, errVars, retryVars>>

\* sdk.getBaseUrl() on a constructed instance.
GetBaseUrl ==
  /\ \E i \in 1..Len(sdkInstances) :
       sdkLast' = [op |-> "getBaseUrl", instance |-> i, value |-> getBaseUrl(OpenAPI)]
  /\ sdkBefore' = OpenAPI
  /\ UNCHANGED <<OpenAPI, sdkInstances, svcCall, svcPromise>>
  /\ UNCHANGED <<normVars, patchVars, qbVars, errVars, retryVars>>

NextSdk == Construct \/ SetAccessToken \/ GetBaseUrl

SpecSdk == InitSdk /\ [][NextSdk]_vars

(***************************************************************************)
(* src/services: the methods of the nine services.                         *)
(***************************************************************************)
\* The methods each service class declares.
ServiceMethods ==
  [ comptes |-> {"getAccount", "listOperations", "transfer"},
    alias |-> {"create", "list", "delete"},
    webhooks |-> {"create", "list", "get", "update", "delete"},
    demandesPaiement |-> {"create", "list", "get", "accept", "reject"},
    demandesPaiementEnMasse |-> {"create", "get", "confirm"},
    paiements |-> {"create", "get", "list"},
    paiementsEnMasse |-> {"createBulk", "get", "retry"},
    retoursFonds |-> {"create", "get", "list"},
    demandesAnnulation |-> {"create", "get", "list"} ]

NotGenerated == Str("Service not yet generated. Run \"pnpm run generate\" first.")

\* An operation that ends well: not the body of any method.
OperationResolving(service, method, args) ==
  [kind |-> "resolved", value |-> Obj(<<>>)]

\* The async arrow function every method hands to execute: its body is the
\* throw of a new Error, which rejects its promise, whatever the arguments.
Operation(service, method, args) ==
  [kind |-> "rejected",
   error |-> Object("Error", 0, << <<"message", NotGenerated>> >>)]

\* What execute's catch is given when the operation failed.
Awaited(operation) ==
  IF operation.kind = "resolved" THEN operation
  ELSE [operation EXCEPT !.error = Caught(@)]

ServiceArguments ==
  { <<>>, <<Str("CIC2344256727788288822")>>, <<Undefined, Obj(<<>>)>> }

\* sdk.<service>.<method>(...args): the method calls execute, which calls
\* the operation and awaits it.
ServiceCall ==
  /\ svcPromise.kind # "pending"
  /\ \E service \in DOMAIN ServiceMethods, args \in ServiceArguments :
       \E method \in ServiceMethods[service] :
         svcCall' = [service |-> service, method |-> method, args |-> args]
  /\ svcPromise' = [kind |-> "pending"]
  /\ UNCHANGED <<OpenAPI, sdkInstances, sdkLast, sdkBefore>>
  /\ UNCHANGED <<normVars, patchVars, qbVars, errVars, retryVars>>

\* The operation has ended: execute goes on after its await.
ServiceSettle ==
  /\ svcPromise.kind = "pending"
  /\ svcPromise' = execute(Awaited(Operation(svcCall.service, svcCall.method, svcCall.args)))
  /\ UNCHANGED <<OpenAPI, sdkInstances, sdkLast, sdkBefore, svcCall>>
  /\ UNCHANGED <<normVars, patchVars, qbVars, errVars, retryVars>>

NextServices == ServiceCall \/ ServiceSettle

SpecServices == InitSdk /\ [][NextServices]_vars

(***************************************************************************)
(* Properties of the facade and the services.                              *)
(***************************************************************************)
\* C24: the promise of every method of every service, whatever the
\* arguments, is never resolved: once settled it is rejected with the plain
\* Error the method's operation threw, message 'Service not yet generated.
\* Run "pnpm run generate" first.', the very object and no PiSpiError.
C24_EveryServiceMethodIsAStub ==
  /\ svcPromise.kind # "resolved"
  /\ svcPromise.kind = "rejected" =>
       /\ svcPromise.error.t = "obj"
       /\ svcPromise.error.class = "Error"
       /\ svcPromise.error.ref = 1
       /\ ~InstanceofPiSpiError(svcPromise.error)
       /\ svcPromise.error.props =
            << <<"message",
                 Str("Service not yet generated. Run \"pnpm run generate\" first.")>> >>

\* sdk.webhooks.update was called with two arguments and its promise is
\* rejected.
C24_Witness ==
  /\ svcCall = [service |-> "webhooks", method |-> "update",
                args |-> <<Undefined, Obj(<<>>)>>]
  /\ svcPromise.kind = "rejected"
  /\ Get(svcPromise.error, "message") = NotGenerated

\* The text of the Authorization header for a token.
ExpectedAuthorization(token) ==
  CASE token = Str("t1") -> Str("Bearer t1")
    [] token = Str("t2") -> Str("Bearer t2")
    [] token = Str("") -> Str("Bearer ")
    [] token = Undefined -> Str("Bearer undefined")

\* The base URL an instance was constructed with; an empty one counts as
\* none given.
ConstructedBase(instance) ==
  IF Get(sdkInstances[instance].config, "baseUrl") \in {Undefined, Str("")}
  THEN Str("https://sandbox.api.pi-bceao.com/piz/v1")
  ELSE Get(sdkInstances[instance].config, "baseUrl")

\* C25: getBaseUrl() on an instance returns the baseUrl the instance was
\* constructed with, the sandbox URL when it was given none; and a call of
\* setAccessToken on an instance leaves the token and the headers the
\* requests of every other instance are made with (those of OpenAPI) as they
\* were.
C25_InstanceIsolation ==
  /\ sdkLast.op = "getBaseUrl" => sdkLast.value = ConstructedBase(sdkLast.instance)
  /\ sdkLast.op = "setAccessToken" =>
       \A other \in 1..Len(sdkInstances) :
         other # sdkLast.instance =>
           /\ Get(OpenAPI, "TOKEN") = Get(sdkBefore, "TOKEN")
           /\ Get(OpenAPI, "HEADERS") = Get(sdkBefore, "HEADERS")

\* The headers without their Authorization entry.
OtherHeaders(openApi) == DeleteProp(Spread(Get(openApi, "HEADERS")), "Authorization")

\* C26: once an SDK is constructed, HEADERS.Authorization of OpenAPI is
\* 'Bearer ' followed by TOKEN (as a string), also when config.headers had
\* an Authorization entry of its own; and a call of setAccessToken leaves
\* BASE and the headers other than Authorization as they were.
C26_TokenHeaderConsistency ==
  /\ sdkInstances # <<>> =>
       /\ Get(Get(OpenAPI, "HEADERS"), "Authorization")
            = ExpectedAuthorization(Get(OpenAPI, "TOKEN"))
       /\ Cardinality({k \in 1..Len(Get(OpenAPI, "HEADERS").props) :
                         Get(OpenAPI, "HEADERS").props[k][1] = "Authorization"}) = 1
  /\ sdkLast.op = "setAccessToken" =>
       /\ Get(OpenAPI, "TOKEN") = sdkLast.token
       /\ Get(OpenAPI, "BASE") = Get(sdkBefore, "BASE")
       /\ OtherHeaders(OpenAPI) = OtherHeaders(sdkBefore)

\* An SDK was constructed with headers holding an Authorization entry and
\* X-Request-Id, and then given the token t2.
C26_Witness ==
  /\ Len(sdkInstances) = 1
  /\ Get(sdkInstances[1].config, "headers")
       = Obj(<< <<"Authorization", Str("Basic abc")>>, <<"X-Request-Id", Str("r1")>> >>)
  /\ sdkLast = [op |-> "setAccessToken", instance |-> 1, token |-> Str("t2")]
  /\ Get(OpenAPI, "TOKEN") = Str("t2")
  /\ Get(OpenAPI, "HEADERS")
       = Obj(<< <<"Authorization", Str("Bearer t2")>>, <<"X-Request-Id", Str("r1")>> >>)

====
